---- MODULE Spec2Model ----
(***************************************************************************)
(* Joiner / Mover / Leaver identity-lifecycle engine.                      *)
(*                                                                         *)
(* The module models the policy mapper (PolicyMapper), the identity store  *)
(* (StateManager), the audit logger (AuditLogger), the step executor       *)
(* (BaseWorkflow._execute_step) and the three workflow variants.           *)
(* JoinerWorkflow and MoverWorkflow (workflows/joiner.py, mover.py) and    *)
(* LeaverWorkflow (jml_engine/workflows/leaver.py) all derive from the     *)
(* repository's one BaseWorkflow (jml_engine/workflows/base_workflow.py).  *)
(***************************************************************************)
EXTENDS Naturals, Sequences, FiniteSets, TLC

VARIABLES
    disk,        \* persisted identity document: employee id -> Identity
    identities,  \* StateManager.identities of the running workflow instance
    connectors,  \* BaseWorkflow.connectors: the systems with a connector
    wf,          \* the running instance: kind, workflow_id, the event
    pc,          \* position of the instance inside execute
    plan,        \* steps still to be generated by the remaining loops
    planned,     \* every step the run's loops generate (fixed at loop entry)
    steps,       \* BaseWorkflow.steps
    errors,      \* BaseWorkflow.errors
    audit,       \* the audit log (one record per line, in write order)
    logged,      \* the id the last log_event call that returned has returned (0: none yet)
    result,      \* what the last execute call returned
    raised,      \* TRUE when the last execute call raised to its caller
    runs,        \* number of execute calls made so far
    calls,       \* number of calls made on the store by other callers
    save_failed, \* the last _save_state has logged "Failed to save state"
    other,       \* the state of a second caller's instance while it is not running
    clock,       \* the time the next reading of the clock returns
    calc         \* a call of _calculate_entitlement_changes: arguments, value

vars == <<disk, identities, connectors, wf, pc, plan, planned, steps, errors,
          audit, logged, result, raised, runs, calls, save_failed, other, clock, calc>>

(***************************************************************************)
(* Bounds of the model.                                                    *)
(***************************************************************************)
\* The execute calls and the store calls of other callers, taken together.
MaxRuns == 1

\* The calls made on one StateManager over its lifetime.
MaxCalls == 2

\* The records handed to one AuditLogger.
MaxRecords == 3

(***************************************************************************)
(* Domain values.                                                          *)
(***************************************************************************)
None == "None"

\* An absent record (Python None where a record is expected).
Null == [null |-> TRUE]

EmployeeIds == {"E1", "E2"}

LifecycleEvent ==
    {"NEW_STARTER", "ROLE_CHANGE", "DEPARTMENT_CHANGE", "TERMINATION",
     "CONTRACTOR_OFFBOARDING", "LEAVE_OF_ABSENCE", "RETURN_FROM_LEAVE"}

UserStatus == {"ACTIVE", "INACTIVE", "SUSPENDED", "TERMINATED", "ON_LEAVE"}

Systems == <<"aws", "azure", "github", "google", "slack">>

SystemSet == {Systems[i] : i \in 1..Len(Systems)}

Departments == {"Engineering", "Marketing"}

Titles == {"Engineer"}

ContractTypes == {"PERMANENT", "CONTRACTOR", None}

Range(s) == {s[i] : i \in 1..Len(s)}

RECURSIVE SetToSeq(_)
SetToSeq(S) ==
    IF S = {} THEN <<>>
    ELSE LET x == CHOOSE y \in S : TRUE IN <<x>> \o SetToSeq(S \ {x})

RECURSIVE SelectSeqNotIn(_, _)
SelectSeqNotIn(s, S) ==
    IF s = <<>> THEN <<>>
    ELSE IF Head(s) \in S THEN SelectSeqNotIn(Tail(s), S)
         ELSE <<Head(s)>> \o SelectSeqNotIn(Tail(s), S)

(***************************************************************************)
(* Policy configuration: the access-matrix and role-mapping documents.     *)
(***************************************************************************)
ProfileFields ==
    <<"aws_roles", "azure_groups", "github_teams", "google_groups", "slack_channels">>

EmptyLists ==
    [aws_roles |-> <<>>, azure_groups |-> <<>>, github_teams |-> <<>>,
     google_groups |-> <<>>, slack_channels |-> <<>>]

access_matrix ==
    [default_access    |-> [EmptyLists EXCEPT !.slack_channels = <<"general">>],
     departments       |->
        [Engineering |-> [EmptyLists EXCEPT !.aws_roles = <<"EC2ReadOnly">>],
         Marketing   |-> [EmptyLists EXCEPT !.azure_groups = <<"Marketing">>]],
     contractor_access |-> [EmptyLists EXCEPT !.google_groups = <<"contractors">>],
     intern_access     |-> [EmptyLists EXCEPT !.slack_channels = <<"general", "interns">>],
     executive_access  |-> [EmptyLists EXCEPT !.aws_roles = <<"AdminAccess">>]]

\* title_mappings: each pattern is given by the titles its regular
\* expression matches.  The first mapping is additive, the second names an
\* override profile of the access matrix, the third is additive and comes
\* after a mapping that matches the same title.
role_mappings ==
    [title_mappings |->
        << [pattern |-> {"Engineering Manager"}, access_override |-> None,
            additional |-> [EmptyLists EXCEPT !.github_teams = <<"leads">>]],
           [pattern |-> {"Chief Technology Officer"},
            access_override |-> "executive_access", additional |-> EmptyLists],
           [pattern |-> {"Engineering Manager", "Chief Technology Officer"},
            access_override |-> None,
            additional |-> [EmptyLists EXCEPT !.azure_groups = <<"managers">>]] >>,
     custom_mappings |->
        [t \in {"Security Champion"} |->
            [EmptyLists EXCEPT !.github_teams = <<"security">>]]]

AccessProfile(department, title, lists) ==
    [department |-> department, title |-> title,
     aws_roles |-> lists.aws_roles, azure_groups |-> lists.azure_groups,
     github_teams |-> lists.github_teams, google_groups |-> lists.google_groups,
     slack_channels |-> lists.slack_channels]

_get_default_access == AccessProfile("Default", None, access_matrix.default_access)

_get_department_access(department) ==
    IF department \in DOMAIN access_matrix.departments
    THEN AccessProfile(department, None, access_matrix.departments[department])
    ELSE Null

\* str.upper on the contract types the model uses.
upper(contract_type) ==
    CASE contract_type = "contractor" -> "CONTRACTOR"
      [] contract_type = "Summer Intern" -> "SUMMER INTERN"
      [] contract_type = "temp" -> "TEMP"
      [] OTHER -> contract_type

\* "sub in s" on the upper-case contract types the model uses.
contains(s, sub) ==
    \/ s = sub
    \/ <<s, sub>> \in {<<"SUMMER INTERN", "INTERN">>, <<"INTERNAL", "INTERN">>,
                       <<"TEMPORARY", "TEMP">>}

_get_contract_override(contract_type) ==
    IF contract_type = None THEN Null
    ELSE IF upper(contract_type) = "CONTRACTOR"
    THEN AccessProfile("Contractor", None, access_matrix.contractor_access)
    ELSE IF contains(upper(contract_type), "INTERN") \/ contains(upper(contract_type), "TEMP")
    THEN AccessProfile("Intern", None, access_matrix.intern_access)
    ELSE Null

RECURSIVE FirstMatch(_, _)
FirstMatch(mappings, title) ==
    IF mappings = <<>> THEN Null
    ELSE IF title \in Head(mappings).pattern THEN Head(mappings)
    ELSE FirstMatch(Tail(mappings), title)

_get_title_access(title, department) ==
    LET m == FirstMatch(role_mappings.title_mappings, title) IN
    IF m # Null
    THEN IF m.access_override # None /\ m.access_override \in DOMAIN access_matrix
         THEN AccessProfile(department, None, access_matrix[m.access_override])
         ELSE AccessProfile(department, None, m.additional)
    ELSE IF title \in DOMAIN role_mappings.custom_mappings
    THEN AccessProfile(department, None, role_mappings.custom_mappings[title])
    ELSE Null

_merge_profiles_Concatenates(base, additional) ==
    [department     |-> additional.department,
     title          |-> IF additional.title # None THEN additional.title ELSE base.title,
     aws_roles      |-> base.aws_roles \o additional.aws_roles,
     azure_groups   |-> base.azure_groups \o additional.azure_groups,
     github_teams   |-> base.github_teams \o additional.github_teams,
     google_groups  |-> base.google_groups \o additional.google_groups,
     slack_channels |-> base.slack_channels \o additional.slack_channels]

\* list(set(a + b)): the union without duplicates, in some order.
_merge_profiles(base, additional) ==
    [department     |-> additional.department,
     title          |-> IF additional.title # None THEN additional.title ELSE base.title,
     aws_roles      |-> SetToSeq(Range(base.aws_roles \o additional.aws_roles)),
     azure_groups   |-> SetToSeq(Range(base.azure_groups \o additional.azure_groups)),
     github_teams   |-> SetToSeq(Range(base.github_teams \o additional.github_teams)),
     google_groups  |-> SetToSeq(Range(base.google_groups \o additional.google_groups)),
     slack_channels |-> SetToSeq(Range(base.slack_channels \o additional.slack_channels))]

\* contract_type None makes contract_type.upper() raise: the resolution fails.
PolicyRaises(contract_type) == contract_type = None

get_access_profile_MergesContractLayer(department, title, contract_type) ==
    LET p0 == _get_default_access
        d  == _get_department_access(department)
        p1 == IF d # Null THEN _merge_profiles(p0, d) ELSE p0
        c  == _get_contract_override(contract_type)
        p2 == IF c # Null THEN _merge_profiles(p1, c) ELSE p1
        t  == IF title # None THEN _get_title_access(title, department) ELSE Null
        p3 == IF t # Null THEN _merge_profiles(p2, t) ELSE p2
    IN [p3 EXCEPT !.department = department, !.title = title]

get_access_profile(department, title, contract_type) ==
    LET p0 == _get_default_access
        d  == _get_department_access(department)
        p1 == IF d # Null THEN _merge_profiles(p0, d) ELSE p0
        c  == _get_contract_override(contract_type)
        p2 == IF c # Null THEN c ELSE p1
        t  == IF title # None THEN _get_title_access(title, department) ELSE Null
        p3 == IF t # Null THEN _merge_profiles(p2, t) ELSE p2
    IN [p3 EXCEPT !.department = department, !.title = title]

get_access_profile_from_event(event) ==
    get_access_profile(event.department, event.title, event.contract_type)

(***************************************************************************)
(* Entitlements.  Equality is structural over the four fields.             *)
(***************************************************************************)
AccessEntitlement(system, resource_type, resource_name, permission_level) ==
    [system |-> system, resource_type |-> resource_type,
     resource_name |-> resource_name, permission_level |-> permission_level]

EntsOf(system, resource_type, names, permission_level) ==
    [i \in 1..Len(names) |->
        AccessEntitlement(system, resource_type, names[i], permission_level)]

_profile_to_entitlements(profile) ==
    EntsOf("aws", "role", profile.aws_roles, "assume")
    \o EntsOf("azure", "group", profile.azure_groups, "member")
    \o EntsOf("github", "team", profile.github_teams, "member")
    \o EntsOf("google", "group", profile.google_groups, "member")
    \o EntsOf("slack", "channel", profile.slack_channels, "member")

(***************************************************************************)
(* StateManager: the identity store and its persisted document.            *)
(***************************************************************************)
_determine_status_from_event(event) ==
    IF event.event \in {"TERMINATION", "CONTRACTOR_OFFBOARDING"} THEN "TERMINATED"
    ELSE IF event.event = "LEAVE_OF_ABSENCE" THEN "ON_LEAVE"
    ELSE "ACTIVE"

get_identity(ids, employee_id) ==
    IF employee_id \in DOMAIN ids THEN ids[employee_id] ELSE Null

\* entitlements = Null stands for the argument left out (None); t is the
\* time read from the clock.
create_or_update_identity_ResetsEntitlements(ids, hr_event, entitlements, t) ==
    LET e == hr_event.employee_id IN
    IF e \in DOMAIN ids
    THEN [ids EXCEPT ![e] =
            [@ EXCEPT !.department = hr_event.department,
                      !.title = hr_event.title,
                      !.updated_at = t,
                      !.last_hr_event = hr_event.event,
                      !.status = _determine_status_from_event(hr_event),
                      !.entitlements =
                          IF entitlements # Null THEN entitlements.list ELSE <<>>]]
    ELSE [x \in DOMAIN ids \cup {e} |->
            IF x = e
            THEN [employee_id |-> e,
                  department |-> hr_event.department,
                  title |-> hr_event.title,
                  status |-> _determine_status_from_event(hr_event),
                  entitlements |->
                      IF entitlements # Null THEN entitlements.list ELSE <<>>,
                  created_at |-> t,
                  updated_at |-> t,
                  last_hr_event |-> hr_event.event]
            ELSE ids[x]]

create_or_update_identity(ids, hr_event, entitlements, t) ==
    LET e == hr_event.employee_id IN
    IF e \in DOMAIN ids
    THEN [ids EXCEPT ![e] =
            [@ EXCEPT !.department = hr_event.department,
                      !.title = hr_event.title,
                      !.updated_at = t,
                      !.last_hr_event = hr_event.event,
                      !.status = _determine_status_from_event(hr_event),
                      !.entitlements =
                          IF entitlements # Null THEN entitlements.list ELSE @]]
    ELSE [x \in DOMAIN ids \cup {e} |->
            IF x = e
            THEN [employee_id |-> e,
                  department |-> hr_event.department,
                  title |-> hr_event.title,
                  status |-> _determine_status_from_event(hr_event),
                  entitlements |->
                      IF entitlements # Null THEN entitlements.list ELSE <<>>,
                  created_at |-> t,
                  updated_at |-> t,
                  last_hr_event |-> hr_event.event]
            ELSE ids[x]]

update_entitlements(ids, employee_id, entitlements, t) ==
    IF employee_id \in DOMAIN ids
    THEN [ids EXCEPT ![employee_id].entitlements = entitlements,
                     ![employee_id].updated_at = t]
    ELSE ids

add_entitlement(ids, employee_id, entitlement, t) ==
    IF employee_id \notin DOMAIN ids THEN ids
    ELSE IF \E i \in 1..Len(ids[employee_id].entitlements) :
                LET existing == ids[employee_id].entitlements[i] IN
                /\ existing.system = entitlement.system
                /\ existing.resource_type = entitlement.resource_type
                /\ existing.resource_name = entitlement.resource_name
    THEN ids
    ELSE [ids EXCEPT ![employee_id].entitlements = Append(@, entitlement),
                     ![employee_id].updated_at = t]

remove_entitlement(ids, employee_id, system, resource_name, t) ==
    IF employee_id \notin DOMAIN ids THEN ids
    ELSE LET kept(ent) == ~(ent.system = system /\ ent.resource_name = resource_name)
             entitlements == SelectSeq(ids[employee_id].entitlements, kept)
         IN IF Len(entitlements) < Len(ids[employee_id].entitlements)
            THEN [ids EXCEPT ![employee_id].entitlements = entitlements,
                             ![employee_id].updated_at = t]
            ELSE ids

\* Variant: deactivation also empties the identity's entitlements.
deactivate_identity_ClearsEntitlements(ids, employee_id, t) ==
    IF employee_id \in DOMAIN ids
    THEN [ids EXCEPT ![employee_id].status = "TERMINATED",
                     ![employee_id].entitlements = <<>>,
                     ![employee_id].updated_at = t]
    ELSE ids

\* Variant: the identity is marked INACTIVE.
deactivate_identity_MarksInactive(ids, employee_id, t) ==
    IF employee_id \in DOMAIN ids
    THEN [ids EXCEPT ![employee_id].status = "INACTIVE",
                     ![employee_id].updated_at = t]
    ELSE ids

deactivate_identity(ids, employee_id, t) ==
    IF employee_id \in DOMAIN ids
    THEN [ids EXCEPT ![employee_id].status = "TERMINATED",
                     ![employee_id].updated_at = t]
    ELSE ids

\* The document written: every identity of the store, dumped field by field.
_save_state(ids) ==
    [e \in DOMAIN ids |->
        [employee_id |-> ids[e].employee_id, department |-> ids[e].department,
         title |-> ids[e].title, status |-> ids[e].status,
         entitlements |-> ids[e].entitlements,
         created_at |-> ids[e].created_at, updated_at |-> ids[e].updated_at,
         last_hr_event |-> ids[e].last_hr_event]]

\* The store rebuilt from the document at construction.
\* Variant: the records of terminated employees are not loaded.
_load_state_SkipsTerminated(doc) ==
    [e \in {x \in DOMAIN doc : doc[x].status # "TERMINATED"} |->
        [employee_id |-> doc[e].employee_id, department |-> doc[e].department,
         title |-> doc[e].title, status |-> doc[e].status,
         entitlements |->
            [i \in 1..Len(doc[e].entitlements) |->
                AccessEntitlement(doc[e].entitlements[i].system,
                                  doc[e].entitlements[i].resource_type,
                                  doc[e].entitlements[i].resource_name,
                                  doc[e].entitlements[i].permission_level)],
         created_at |-> doc[e].created_at, updated_at |-> doc[e].updated_at,
         last_hr_event |-> doc[e].last_hr_event]]

_load_state(doc) ==
    [e \in DOMAIN doc |->
        [employee_id |-> doc[e].employee_id, department |-> doc[e].department,
         title |-> doc[e].title, status |-> doc[e].status,
         entitlements |->
            [i \in 1..Len(doc[e].entitlements) |->
                AccessEntitlement(doc[e].entitlements[i].system,
                                  doc[e].entitlements[i].resource_type,
                                  doc[e].entitlements[i].resource_name,
                                  doc[e].entitlements[i].permission_level)],
         created_at |-> doc[e].created_at, updated_at |-> doc[e].updated_at,
         last_hr_event |-> doc[e].last_hr_event]]

(***************************************************************************)
(* WorkflowStep and the step executor.                                     *)
(***************************************************************************)
WorkflowStep(system, operation, resource, parameters) ==
    [system |-> system, operation |-> operation, resource |-> resource,
     parameters |-> parameters, success |-> FALSE, error |-> None]

\* method_map: for each known operation, the parameter keys its lambda reads.
method_map ==
    [create_user       |-> {"user"},
     delete_user       |-> {"user_id"},
     add_to_group      |-> {"user_id", "group_name"},
     remove_from_group |-> {"user_id", "group_name"},
     grant_role        |-> {"user_id", "role_name"},
     revoke_role       |-> {"user_id", "role_name"}]

\* What a connector does when it is called is the environment's choice.
ConnectorOutcomes == {"ok", "fail", "raise"}

\* The systems whose connector may fail or raise; the others' calls succeed.
FlakySystems == {"aws", "slack"}

OutcomesOf(system) == IF system \in FlakySystems THEN ConnectorOutcomes ELSE {"ok"}

\* "ok" / "fail": a ConnectorResult; "raise": an exception leaves the
\* connector.  An unknown operation is a failed ConnectorResult; a parameter
\* key the lambda reads and the step does not carry is a KeyError, raised
\* before the connector is called.
_call_connector_method(operation, params, outcome) ==
    IF operation \notin DOMAIN method_map THEN "unknown"
    ELSE IF ~(method_map[operation] \subseteq params) THEN "KeyError"
    ELSE outcome

ErrorEntry(kind, system, operation) ==
    [kind |-> kind, system |-> system, operation |-> operation]

\* _execute_step without its except clause: what the connector call raises
\* leaves the method (raises) and no value is returned.
_execute_step_LetsExceptionsThrough(step, conns, outcome) ==
    IF step.system \notin conns
    THEN [step    |-> [step EXCEPT !.success = FALSE, !.error = "no_connector"],
          error   |-> ErrorEntry("no_connector", step.system, step.operation),
          returns |-> FALSE, raises |-> FALSE]
    ELSE LET r == _call_connector_method(step.operation, step.parameters, outcome) IN
         IF r = "ok"
         THEN [step |-> [step EXCEPT !.success = TRUE], error |-> Null,
               returns |-> TRUE, raises |-> FALSE]
         ELSE IF r \in {"raise", "KeyError"}
         THEN [step |-> step, error |-> Null, returns |-> FALSE, raises |-> TRUE]
         ELSE [step    |-> [step EXCEPT !.success = FALSE, !.error = "connector_error"],
               error   |-> ErrorEntry("connector_error", step.system, step.operation),
               returns |-> FALSE, raises |-> FALSE]

\* _execute_step with the errors.append of the no-connector branch left out.
_execute_step_SilentNoConnector(step, conns, outcome) ==
    IF step.system \notin conns
    THEN [step    |-> [step EXCEPT !.success = FALSE, !.error = "no_connector"],
          error   |-> Null,
          returns |-> FALSE, raises |-> FALSE]
    ELSE LET r == _call_connector_method(step.operation, step.parameters, outcome) IN
         IF r = "ok"
         THEN [step |-> [step EXCEPT !.success = TRUE], error |-> Null,
               returns |-> TRUE, raises |-> FALSE]
         ELSE IF r \in {"raise", "KeyError"}
         THEN LET text == IF r = "KeyError" THEN "KeyError" ELSE "exception" IN
              [step    |-> [step EXCEPT !.success = FALSE, !.error = text],
               error   |-> ErrorEntry(text, step.system, step.operation),
               returns |-> FALSE, raises |-> FALSE]
         ELSE [step    |-> [step EXCEPT !.success = FALSE, !.error = "connector_error"],
               error   |-> ErrorEntry("connector_error", step.system, step.operation),
               returns |-> FALSE, raises |-> FALSE]

\* The step as marked, the entry appended to self.errors (Null: none), the
\* value returned and whether an exception leaves the method.  The text of
\* an exception names what was raised.
_execute_step(step, conns, outcome) ==
    IF step.system \notin conns
    THEN [step    |-> [step EXCEPT !.success = FALSE, !.error = "no_connector"],
          error   |-> ErrorEntry("no_connector", step.system, step.operation),
          returns |-> FALSE, raises |-> FALSE]
    ELSE LET r == _call_connector_method(step.operation, step.parameters, outcome) IN
         IF r = "ok"
         THEN [step |-> [step EXCEPT !.success = TRUE], error |-> Null,
               returns |-> TRUE, raises |-> FALSE]
         ELSE IF r \in {"raise", "KeyError"}
         THEN LET text == IF r = "KeyError" THEN "KeyError" ELSE "exception" IN
              [step    |-> [step EXCEPT !.success = FALSE, !.error = text],
               error   |-> ErrorEntry(text, step.system, step.operation),
               returns |-> FALSE, raises |-> FALSE]
         ELSE [step    |-> [step EXCEPT !.success = FALSE, !.error = "connector_error"],
               error   |-> ErrorEntry("connector_error", step.system, step.operation),
               returns |-> FALSE, raises |-> FALSE]

(***************************************************************************)
(* Audit logging.                                                          *)
(***************************************************************************)
\* The parameters of _log_audit_event that have no default.
AuditRequiredArgs ==
    {"employee_id", "user_email", "event_type", "system", "action", "resource",
     "success"}

\* The keyword arguments each workflow's call sites pass.
JoinerAuditArgs ==
    {"employee_id", "event_type", "system", "action", "resource", "success", "error"}

MoverAuditArgs ==
    {"employee_id", "event_type", "system", "action", "resource", "success", "error"}

LeaverAuditArgs ==
    {"employee_id", "user_email", "event_type", "system", "action", "resource",
     "success", "error"}

AuditRecord(id, timestamp, employee_id, event_type, system, action, resource, success, error, workflow_id) ==
    [id |-> id, timestamp |-> timestamp, employee_id |-> employee_id,
     event_type |-> event_type, system |-> system,
     action |-> action, resource |-> resource, success |-> success,
     error_message |-> error, workflow_id |-> workflow_id]

\* Variant: a failed write is logged and the record's id returned all the
\* same.
log_event_SwallowsFailure(log, record, writeOk) ==
    IF writeOk THEN [log |-> Append(log, record), raised |-> FALSE, id |-> record.id]
    ELSE [log |-> log, raised |-> FALSE, id |-> record.id]

\* Variant: the day's file is opened for writing, not for appending.
log_event_Truncates(log, record, writeOk) ==
    IF writeOk THEN [log |-> <<record>>, raised |-> FALSE, id |-> record.id]
    ELSE [log |-> log, raised |-> TRUE, id |-> Null]

\* AuditLogger.log_event: one line appended and the record's id returned; a
\* failed write raises.
log_event(log, record, writeOk) ==
    IF writeOk THEN [log |-> Append(log, record), raised |-> FALSE, id |-> record.id]
    ELSE [log |-> log, raised |-> TRUE, id |-> Null]

Reverse(s) == [i \in 1..Len(s) |-> s[Len(s) + 1 - i]]

\* The filters of get_events; a date that is not given is <<>>, a given one
\* is <<date>>.
Passes(record, employee_id, start_date, end_date) ==
    /\ employee_id = None \/ record.employee_id = employee_id
    /\ start_date = <<>> \/ record.timestamp >= start_date[1]
    /\ end_date = <<>> \/ record.timestamp <= end_date[1]

\* AuditLogger.get_events: the files in descending order of their date, the
\* lines of each file last to first, the records that pass the filters
\* collected until there are limit of them.  The log is the lines of all
\* files in the order they were written (the date of a write is never
\* earlier than that of the write before it).
get_events(log, employee_id, start_date, end_date, limit) ==
    LET matching == SelectSeq(Reverse(log),
                              LAMBDA r : Passes(r, employee_id, start_date, end_date))
    IN SubSeq(matching, 1, IF Len(matching) < limit THEN Len(matching) ELSE limit)

\* _log_audit_event as called with the keyword arguments args: a call that
\* leaves out a required parameter raises TypeError before anything is built.
_log_audit_event(log, args, record, writeOk) ==
    IF ~(AuditRequiredArgs \subseteq args)
    THEN [log |-> log, raised |-> TRUE, error |-> "TypeError", id |-> Null]
    ELSE LET w == log_event(log, record, writeOk) IN
         [log |-> w.log, raised |-> w.raised,
          error |-> IF w.raised THEN "audit_write_error" ELSE None, id |-> w.id]

(***************************************************************************)
(* The loops of the three workflows.  A plan item is one loop iteration:   *)
(* the WorkflowStep it builds and the audit call that follows the step.    *)
(***************************************************************************)
PlanItem(step, event_type, action, args) ==
    [step |-> step, event_type |-> event_type, action |-> action, args |-> args]

\* JoinerWorkflow._create_user_accounts
_create_user_accounts ==
    [i \in 1..Len(Systems) |->
        PlanItem(WorkflowStep(Systems[i], "create_user", "user_account",
                              {"user", "user_id"}),
                 "provision", "create_user", JoinerAuditArgs)]

AssignItems(system, operation, key, action, names) ==
    [i \in 1..Len(names) |->
        PlanItem(WorkflowStep(system, operation, names[i], {"user_id", key}),
                 "provision", action, JoinerAuditArgs)]

\* JoinerWorkflow._assign_access_entitlements
_assign_access_entitlements(access_profile) ==
    AssignItems("aws", "grant_role", "role_name", "grant_role", access_profile.aws_roles)
    \o AssignItems("azure", "add_to_group", "group_name", "add_to_group",
                   access_profile.azure_groups)
    \o AssignItems("github", "add_to_group", "group_name", "add_to_team",
                   access_profile.github_teams)
    \o AssignItems("google", "add_to_group", "group_name", "add_to_group",
                   access_profile.google_groups)
    \o AssignItems("slack", "add_to_group", "group_name", "add_to_channel",
                   access_profile.slack_channels)

\* JoinerWorkflow._execute_provisioning_steps
_execute_provisioning_steps(access_profile) ==
    _create_user_accounts \o _assign_access_entitlements(access_profile)

_get_removal_operation(resource_type) ==
    IF resource_type \in {"group", "team", "channel"} THEN "remove_from_group"
    ELSE "revoke_role"

_get_addition_operation(resource_type) ==
    IF resource_type \in {"group", "team", "channel"} THEN "add_to_group"
    ELSE "grant_role"

\* The delta taken between the two profiles: everything of the old profile
\* is removed and everything of the new one is added.
_calculate_entitlement_changes_OldVsNew(current_entitlements, old_profile, new_profile) ==
    [to_remove |-> SetToSeq(Range(_profile_to_entitlements(old_profile))),
     to_add    |-> SetToSeq(Range(_profile_to_entitlements(new_profile)))]

\* The delta that removes only what the old profile gave and the new one
\* does not: entitlements held from elsewhere stay.
_calculate_entitlement_changes_RemovesOldProfileOnly(current_entitlements, old_profile, new_profile) ==
    LET new_entitlements == Range(_profile_to_entitlements(new_profile))
        old_entitlements == Range(_profile_to_entitlements(old_profile))
        current_entitlements_set == Range(current_entitlements)
    IN [to_remove |-> SetToSeq(current_entitlements_set
                                 \cap (old_entitlements \ new_entitlements)),
        to_add    |-> SetToSeq(new_entitlements \ current_entitlements_set)]

\* MoverWorkflow._calculate_entitlement_changes: the two set differences,
\* each returned as a list (list(set), in some order).
_calculate_entitlement_changes(current_entitlements, old_profile, new_profile) ==
    LET new_entitlements == Range(_profile_to_entitlements(new_profile))
        current_entitlements_set == Range(current_entitlements)
    IN [to_remove |-> SetToSeq(current_entitlements_set \ new_entitlements),
        to_add    |-> SetToSeq(new_entitlements \ current_entitlements_set)]

\* MoverWorkflow.execute, the list handed to update_entitlements: what is
\* held and not to remove, in its order, then what is to add.
updated_entitlements(current_entitlements, entitlements_to_remove, entitlements_to_add) ==
    SelectSeqNotIn(current_entitlements, Range(entitlements_to_remove))
    \o entitlements_to_add

\* MoverWorkflow._execute_removal_steps
_execute_removal_steps(entitlements_to_remove) ==
    [i \in 1..Len(entitlements_to_remove) |->
        LET ent == entitlements_to_remove[i]
            operation == _get_removal_operation(ent.resource_type)
        IN PlanItem(WorkflowStep(ent.system, operation, ent.resource_name,
                                 {"user_id", "resource_name"}),
                    "revoke", operation, MoverAuditArgs)]

\* MoverWorkflow._execute_addition_steps
_execute_addition_steps(entitlements_to_add) ==
    [i \in 1..Len(entitlements_to_add) |->
        LET ent == entitlements_to_add[i]
            operation == _get_addition_operation(ent.resource_type)
        IN PlanItem(WorkflowStep(ent.system, operation, ent.resource_name,
                                 {"user_id", "resource_name"}),
                    "grant", operation, MoverAuditArgs)]

\* MoverWorkflow._get_old_access_profile
_get_old_access_profile(hr_event) ==
    get_access_profile(
        IF hr_event.previous_department # None THEN hr_event.previous_department
        ELSE hr_event.department,
        IF hr_event.previous_title # None THEN hr_event.previous_title
        ELSE hr_event.title,
        "PERMANENT")

_get_revocation_operation(resource_type) ==
    IF resource_type \in {"group", "team", "channel"} THEN "remove_from_group"
    ELSE "revoke_role"

\* LeaverWorkflow._revoke_all_entitlements
_revoke_all_entitlements(entitlements) ==
    [i \in 1..Len(entitlements) |->
        LET ent == entitlements[i]
            operation == _get_revocation_operation(ent.resource_type)
        IN PlanItem(WorkflowStep(ent.system, operation, ent.resource_name,
                                 {"user_id", "resource_name"}),
                    "revoke", operation, LeaverAuditArgs)]

\* LeaverWorkflow._deactivate_user_accounts
_deactivate_user_accounts ==
    [i \in 1..Len(Systems) |->
        PlanItem(WorkflowStep(Systems[i], "delete_user", "user_account", {"user_id"}),
                 "deprovision", "delete_user", LeaverAuditArgs)]

\* Variant: nothing is emitted for an identity that holds no entitlements.
_execute_deprovisioning_steps_OnlyWhenHeld(identity) ==
    IF identity # Null /\ identity.entitlements # <<>>
    THEN _revoke_all_entitlements(identity.entitlements) \o _deactivate_user_accounts
    ELSE IF identity # Null THEN <<>> ELSE _deactivate_user_accounts

\* LeaverWorkflow._execute_deprovisioning_steps
_execute_deprovisioning_steps(identity) ==
    (IF identity # Null THEN _revoke_all_entitlements(identity.entitlements) ELSE <<>>)
    \o _deactivate_user_accounts

(***************************************************************************)
(* Workflow execution.                                                     *)
(***************************************************************************)
WorkflowKinds == {"joiner", "mover", "leaver"}

HREvent(event, employee_id, department, contract_type, previous_department, previous_title) ==
    [event |-> event, employee_id |-> employee_id, department |-> department,
     title |-> "Engineer", contract_type |-> contract_type,
     previous_department |-> previous_department, previous_title |-> previous_title]

\* The events the callers hand to execute: hires, role changes (same
\* department, previous title given), department changes (previous
\* department given), terminations and leave events.
HREvents ==
    {HREvent("NEW_STARTER", e, d, c, None, None) :
        e \in EmployeeIds, d \in Departments, c \in ContractTypes}
    \cup {HREvent("ROLE_CHANGE", e, d, c, None, "Engineer") :
        e \in EmployeeIds, d \in Departments, c \in ContractTypes}
    \cup {HREvent("DEPARTMENT_CHANGE", e, d, c, CHOOSE x \in Departments : x # d, None) :
        e \in EmployeeIds, d \in Departments, c \in ContractTypes}
    \cup {HREvent("TERMINATION", e, "Engineering", "PERMANENT", None, None) :
        e \in EmployeeIds}
    \cup {HREvent("CONTRACTOR_OFFBOARDING", e, "Engineering", "CONTRACTOR", None, None) :
        e \in EmployeeIds}
    \cup {HREvent(k, e, "Engineering", "PERMANENT", None, None) :
        k \in {"LEAVE_OF_ABSENCE", "RETURN_FROM_LEAVE"}, e \in EmployeeIds}

\* The connector tables an instance may run with: all five systems, or a
\* table in which one system has no connector.
ConnectorTables == {SystemSet, SystemSet \ {"aws"}}

\* The precondition with the Leaver's list of kinds one kind too long.
AcceptsEvent_LeaverTakesLeave(kind, hr_event) ==
    CASE kind = "joiner" -> hr_event.event = "NEW_STARTER"
      [] kind = "mover"  -> hr_event.event \in {"ROLE_CHANGE", "DEPARTMENT_CHANGE"}
      [] kind = "leaver" -> hr_event.event \in {"TERMINATION", "CONTRACTOR_OFFBOARDING",
                                                "LEAVE_OF_ABSENCE"}

\* The event-kind precondition at the top of each execute.
AcceptsEvent(kind, hr_event) ==
    CASE kind = "joiner" -> hr_event.event = "NEW_STARTER"
      [] kind = "mover"  -> hr_event.event \in {"ROLE_CHANGE", "DEPARTMENT_CHANGE"}
      [] kind = "leaver" -> hr_event.event \in {"TERMINATION", "CONTRACTOR_OFFBOARDING"}

WorkflowResult(w, completed_at, success, actions_taken, errs) ==
    [workflow_id |-> w.workflow_id, employee_id |-> w.event.employee_id,
     event_type |-> w.event.event, started_at |-> w.started_at,
     completed_at |-> completed_at, success |-> success,
     actions_taken |-> actions_taken, errors |-> errs]

\* What can leave the try block of execute: a failed policy resolution, the
\* Mover's "not found" ValueError, a TypeError of a call, a failed audit write.
ExceptionKinds == {"policy_error", "not_found", "TypeError", "audit_write_error"}

\* "except ValueError": a handler that takes the ValueError only.
ExceptClause_ValueErrorOnly(exc) == exc = "not_found"

\* "except Exception": the handler of execute takes every one of them.
ExceptClause(exc) == exc \in ExceptionKinds

\* The except branch of execute, entered at time t: completed_at is set, the
\* exception text joins self.errors and a failed result is returned.
FailureBoundary(w, stps, errs, exc, t) ==
    [errors |-> Append(errs, ErrorEntry(exc, None, None)),
     result |-> WorkflowResult(w, t, FALSE, stps,
                               Append(errs, ErrorEntry(exc, None, None)))]

\* BaseWorkflow._get_user_identity: the store after the lookup (an absent
\* identity is created with the entitlements of the event's profile).
_get_user_identity(ids, hr_event, t) ==
    IF get_identity(ids, hr_event.employee_id) # Null THEN ids
    ELSE create_or_update_identity(ids, hr_event,
            [list |-> _profile_to_entitlements(get_access_profile_from_event(hr_event))],
            t)

\* The part of execute before the first loop: what it raises into the
\* failure boundary (None: nothing), the store it leaves, whether the store
\* was saved, and the loop iterations that follow.
JoinerPrologue(ids, hr_event, t) ==
    IF PolicyRaises(hr_event.contract_type)
    THEN [exc |-> "policy_error", ids |-> ids, saved |-> FALSE, plan |-> <<>>]
    ELSE [exc |-> None,
          ids |-> _get_user_identity(ids, hr_event, t),
          saved |-> get_identity(ids, hr_event.employee_id) = Null,
          plan |-> _execute_provisioning_steps(get_access_profile_from_event(hr_event))]

\* The Mover's lookup done with the get-or-create lookup of the Joiner.
MoverPrologue_GetOrCreate(ids, hr_event, t) ==
    IF PolicyRaises(hr_event.contract_type)
    THEN [exc |-> "policy_error", ids |-> ids, saved |-> FALSE, plan |-> <<>>]
    ELSE LET ids1 == _get_user_identity(ids, hr_event, t)
             ch == _calculate_entitlement_changes(
                       ids1[hr_event.employee_id].entitlements,
                       _get_old_access_profile(hr_event),
                       get_access_profile_from_event(hr_event))
         IN [exc |-> None, ids |-> ids1,
             saved |-> get_identity(ids, hr_event.employee_id) = Null,
             plan |-> _execute_removal_steps(ch.to_remove)
                      \o _execute_addition_steps(ch.to_add)]

MoverPrologue(ids, hr_event, t) ==
    LET current_identity == get_identity(ids, hr_event.employee_id) IN
    IF current_identity = Null
    THEN [exc |-> "not_found", ids |-> ids, saved |-> FALSE, plan |-> <<>>]
    ELSE IF PolicyRaises(hr_event.contract_type)
    THEN [exc |-> "policy_error", ids |-> ids, saved |-> FALSE, plan |-> <<>>]
    ELSE LET ch == _calculate_entitlement_changes(
                       current_identity.entitlements,
                       _get_old_access_profile(hr_event),
                       get_access_profile_from_event(hr_event))
         IN [exc |-> None, ids |-> ids, saved |-> FALSE,
             plan |-> _execute_removal_steps(ch.to_remove)
                      \o _execute_addition_steps(ch.to_add)]

\* Variant: a Leaver without a stored identity ends as a Mover does.
LeaverPrologue_RequiresIdentity(ids, hr_event, t) ==
    IF get_identity(ids, hr_event.employee_id) = Null
    THEN [exc |-> "not_found", ids |-> ids, saved |-> FALSE, plan |-> <<>>]
    ELSE [exc |-> None, ids |-> ids, saved |-> FALSE,
          plan |-> _execute_deprovisioning_steps(get_identity(ids, hr_event.employee_id))]

LeaverPrologue(ids, hr_event, t) ==
    [exc |-> None, ids |-> ids, saved |-> FALSE,
     plan |-> _execute_deprovisioning_steps(get_identity(ids, hr_event.employee_id))]

Prologue(kind, ids, hr_event, t) ==
    CASE kind = "joiner" -> JoinerPrologue(ids, hr_event, t)
      [] kind = "mover"  -> MoverPrologue(ids, hr_event, t)
      [] kind = "leaver" -> LeaverPrologue(ids, hr_event, t)

\* The part of execute after the last loop: the store it leaves and the
\* document it writes.
JoinerEpilogue(ids, doc, hr_event, t) ==
    LET entitlements ==
            _profile_to_entitlements(get_access_profile_from_event(hr_event))
        ids1 == update_entitlements(ids, hr_event.employee_id, entitlements, t)
    IN [ids |-> ids1,
        disk |-> IF hr_event.employee_id \in DOMAIN ids THEN _save_state(ids1) ELSE doc]

\* Variant: the save reads the document again and replaces in it the record
\* of the run's employee only.
MoverEpilogue_MergesDocument(ids, doc, hr_event, t) ==
    LET current_identity == ids[hr_event.employee_id]
        ch == _calculate_entitlement_changes(
                  current_identity.entitlements,
                  _get_old_access_profile(hr_event),
                  get_access_profile_from_event(hr_event))
        ids1 == update_entitlements(
                    ids, hr_event.employee_id,
                    updated_entitlements(current_identity.entitlements,
                                         ch.to_remove, ch.to_add),
                    t)
    IN [ids |-> [ids1 EXCEPT ![hr_event.employee_id] =
                    [@ EXCEPT !.department = hr_event.department,
                              !.title = hr_event.title,
                              !.updated_at = t,
                              !.last_hr_event = hr_event.event]],
        disk |-> LET saved == _save_state(ids1) IN
                 [x \in DOMAIN doc \cup DOMAIN saved |->
                     IF x = hr_event.employee_id \/ x \notin DOMAIN doc
                     THEN saved[x] ELSE doc[x]]]

MoverEpilogue(ids, doc, hr_event, t) ==
    LET current_identity == ids[hr_event.employee_id]
        ch == _calculate_entitlement_changes(
                  current_identity.entitlements,
                  _get_old_access_profile(hr_event),
                  get_access_profile_from_event(hr_event))
        ids1 == update_entitlements(
                    ids, hr_event.employee_id,
                    updated_entitlements(current_identity.entitlements,
                                         ch.to_remove, ch.to_add),
                    t)
    IN [ids |-> [ids1 EXCEPT ![hr_event.employee_id] =
                    [@ EXCEPT !.department = hr_event.department,
                              !.title = hr_event.title,
                              !.updated_at = t,
                              !.last_hr_event = hr_event.event]],
        disk |-> _save_state(ids1)]

LeaverEpilogue(ids, doc, hr_event, t) ==
    IF hr_event.employee_id \in DOMAIN ids
    THEN [ids |-> deactivate_identity(ids, hr_event.employee_id, t),
          disk |-> _save_state(deactivate_identity(ids, hr_event.employee_id, t))]
    ELSE [ids |-> ids, disk |-> doc]

Epilogue(kind, ids, doc, hr_event, t) ==
    CASE kind = "joiner" -> JoinerEpilogue(ids, doc, hr_event, t)
      [] kind = "mover"  -> MoverEpilogue(ids, doc, hr_event, t)
      [] kind = "leaver" -> LeaverEpilogue(ids, doc, hr_event, t)

\* The document a Joiner run leaves for a newly hired employee.
JoinedDocument(employee_id, department, contract_type) ==
    _save_state(
        _get_user_identity(<<>>,
            HREvent("NEW_STARTER", employee_id, department, contract_type, None, None),
            0))

\* The document a caller's create_or_update_identity leaves when it passes
\* no entitlements: an identity holding none.
UpsertedDocument(employee_id, department) ==
    _save_state(
        create_or_update_identity(<<>>,
            HREvent("NEW_STARTER", employee_id, department, "PERMANENT", None, None),
            Null, 0))

\* The document left once the hired employee has been deactivated.
LeftDocument(employee_id, department) ==
    _save_state(
        deactivate_identity(
            _load_state(JoinedDocument(employee_id, department, "PERMANENT")),
            employee_id, 0))

\* The persisted documents a process may find when it starts: none yet, or
\* the document of one employee: hired into either department, hired as a
\* contractor, stored without entitlements, or already terminated.
StoredDocuments ==
    {<<>>} \cup {JoinedDocument("E1", d, "PERMANENT") : d \in Departments}
           \cup {JoinedDocument("E1", "Engineering", "CONTRACTOR"),
                 UpsertedDocument("E1", "Engineering"),
                 LeftDocument("E1", "Engineering")}

\* What an instance holds of its own: its store, connectors and run state,
\* and the number of execute calls its caller has made.
Instance(ids, conns, w, at, todo, generated, stps, errs, res, rsd, n) ==
    [identities |-> ids, connectors |-> conns, wf |-> w, pc |-> at, plan |-> todo,
     planned |-> generated, steps |-> stps, errors |-> errs, result |-> res,
     raised |-> rsd, runs |-> n]

\* A caller that has not called yet.
NoInstance ==
    Instance(<<>>, SystemSet,
             [kind |-> None, workflow_id |-> 0, event |-> Null, started_at |-> 0],
             "idle", <<>>, <<>>, <<>>, <<>>, Null, FALSE, 0)

Init ==
    /\ disk \in StoredDocuments
    /\ identities = <<>>
    /\ connectors = SystemSet
    /\ wf = [kind |-> None, workflow_id |-> 0, event |-> Null, started_at |-> 0]
    /\ pc = "idle"
    /\ plan = <<>>
    /\ planned = <<>>
    /\ steps = <<>>
    /\ errors = <<>>
    /\ audit = <<>>
    /\ logged = 0
    /\ result = Null
    /\ raised = FALSE
    /\ runs = 0
    /\ calls = 0
    /\ other = NoInstance
    /\ save_failed = FALSE
    /\ clock = 1
    /\ calc = Null

\* The hosting service's dispatch: a workflow of the given kind is
\* constructed (its store loaded from the document) and execute is called
\* with the event; the call runs up to the first loop iteration.
Execute(kind, hr_event, conns) ==
    /\ pc = "idle"
    /\ runs + calls < MaxRuns
    /\ runs' = runs + 1
    /\ calls' = calls
    /\ clock' = clock + 1
    /\ other' = other
    /\ save_failed' = save_failed
    /\ wf' = [kind |-> kind, workflow_id |-> clock, event |-> hr_event,
              started_at |-> clock]
    /\ connectors' = conns
    /\ steps' = <<>>
    /\ audit' = audit
    /\ logged' = logged
    /\ calc' = calc
    /\ IF ~AcceptsEvent(kind, hr_event)
       THEN /\ raised' = TRUE
            /\ result' = Null
            /\ identities' = _load_state(disk)
            /\ errors' = <<>>
            /\ pc' = "idle"
            /\ plan' = <<>>
            /\ planned' = <<>>
            /\ disk' = disk
       ELSE LET p == Prologue(kind, _load_state(disk), hr_event, clock) IN
            /\ identities' = p.ids
            /\ disk' = IF p.saved THEN _save_state(p.ids) ELSE disk
            /\ plan' = p.plan
            /\ planned' = p.plan
            /\ IF p.exc # None /\ ~ExceptClause(p.exc)
               THEN /\ raised' = TRUE
                    /\ errors' = <<>>
                    /\ result' = Null
                    /\ pc' = "idle"
               ELSE IF p.exc # None
               THEN /\ raised' = FALSE
                    /\ errors' = FailureBoundary(wf', <<>>, <<>>, p.exc, clock).errors
                    /\ result' = FailureBoundary(wf', <<>>, <<>>, p.exc, clock).result
                    /\ pc' = "idle"
               ELSE /\ raised' = FALSE
                    /\ errors' = <<>>
                    /\ result' = Null
                    /\ pc' = IF p.plan = <<>> THEN "post" ELSE "steps"

\* One loop iteration: the step is built and appended to self.steps,
\* executed, and the audit call follows.  An exception leaving the audit
\* call ends the run in the failure boundary.
RunStep(outcome, writeOk) ==
    /\ pc = "steps"
    /\ outcome \in OutcomesOf(Head(plan).step.system)
    /\ LET item == Head(plan)
           x == _execute_step(item.step, connectors, outcome)
           steps1 == Append(steps, x.step)
           errors1 == IF x.error # Null THEN Append(errors, x.error) ELSE errors
           a == _log_audit_event(audit, item.args,
                    AuditRecord(clock, clock, wf.event.employee_id, item.event_type,
                                item.step.system, item.action, item.step.resource,
                                x.step.success,
                                IF x.step.success THEN None ELSE x.step.error,
                                wf.workflow_id),
                    writeOk)
       IN /\ steps' = steps1
          /\ audit' = a.log
          /\ logged' = IF a.raised THEN logged ELSE a.id
          /\ plan' = Tail(plan)
          /\ IF a.raised /\ ~ExceptClause(a.error)
             THEN /\ raised' = TRUE
                  /\ errors' = errors1
                  /\ result' = Null
                  /\ pc' = "idle"
             ELSE IF a.raised
             THEN /\ raised' = raised
                  /\ errors' = FailureBoundary(wf, steps1, errors1, a.error, clock).errors
                  /\ result' = FailureBoundary(wf, steps1, errors1, a.error, clock).result
                  /\ pc' = "idle"
             ELSE /\ raised' = raised
                  /\ errors' = errors1
                  /\ result' = Null
                  /\ pc' = IF Tail(plan) = <<>> THEN "post" ELSE "steps"
    /\ clock' = clock + 1
    /\ UNCHANGED <<disk, identities, connectors, wf, planned, runs, calls, save_failed,
                   other, calc>>

\* Variant: the result is built only for a run without errors.
Complete_OnlyWhenNoErrors ==
    /\ pc = "post"
    /\ errors = <<>>
    /\ clock' = clock + 1
    /\ LET e == Epilogue(wf.kind, identities, disk, wf.event, clock) IN
          /\ identities' = e.ids
          /\ disk' = e.disk
    /\ result' = WorkflowResult(wf, clock, errors = <<>>, steps, errors)
    /\ pc' = "idle"
    /\ UNCHANGED <<connectors, wf, plan, planned, steps, errors, audit, logged, raised,
                   runs, calls, save_failed, other, calc>>

\* After the loops: the store is updated and the result is built.
Complete ==
    /\ pc = "post"
    /\ clock' = clock + 1
    /\ LET e == Epilogue(wf.kind, identities, disk, wf.event, clock) IN
          /\ identities' = e.ids
          /\ disk' = e.disk
    /\ result' = WorkflowResult(wf, clock, errors = <<>>, steps, errors)
    /\ pc' = "idle"
    /\ UNCHANGED <<connectors, wf, plan, planned, steps, errors, audit, logged, raised,
                   runs, calls, save_failed, other, calc>>

Next ==
    \/ \E kind \in WorkflowKinds, hr_event \in HREvents, conns \in ConnectorTables :
          Execute(kind, hr_event, conns)
    \/ \E outcome \in ConnectorOutcomes, writeOk \in BOOLEAN : RunStep(outcome, writeOk)
    \/ Complete

Spec == Init /\ [][Next]_vars

\* A run that has started goes on: execute is one sequential call, each
\* connector call and each write returns, and nothing waits on another caller.
SpecFair ==
    /\ Init
    /\ [][Next]_vars
    /\ WF_vars(\E outcome \in ConnectorOutcomes, writeOk \in BOOLEAN : RunStep(outcome, writeOk))
    /\ WF_vars(Complete)

(***************************************************************************)
(* _calculate_entitlement_changes on its own: the arguments are drawn from *)
(* bounded sets and the one action applies the function to them.           *)
(***************************************************************************)
ProfileInputs ==
    {AccessProfile("Engineering", "Engineer",
         [EmptyLists EXCEPT !.aws_roles = a, !.azure_groups = g, !.slack_channels = c]) :
        a \in {<<>>, <<"EC2ReadOnly">>},
        g \in {<<>>, <<"Marketing">>},
        c \in {<<>>, <<"general">>}}

EntitlementInputs ==
    {AccessEntitlement("aws", "role", "EC2ReadOnly", "assume"),
     AccessEntitlement("aws", "role", "EC2ReadOnly", "admin"),
     AccessEntitlement("azure", "group", "Marketing", "member"),
     AccessEntitlement("slack", "channel", "general", "member")}

InitChanges ==
    /\ disk = <<>>
    /\ identities = <<>>
    /\ connectors = SystemSet
    /\ wf = [kind |-> None, workflow_id |-> 0, event |-> Null, started_at |-> 0]
    /\ pc = "idle"
    /\ plan = <<>>
    /\ planned = <<>>
    /\ steps = <<>>
    /\ errors = <<>>
    /\ audit = <<>>
    /\ logged = 0
    /\ result = Null
    /\ raised = FALSE
    /\ runs = 0
    /\ calls = 0
    /\ other = NoInstance
    /\ save_failed = FALSE
    /\ clock = 1
    /\ calc \in {[current_entitlements |-> SetToSeq(c), old_profile |-> o,
                  new_profile |-> n, value |-> Null, updated |-> <<>>,
                  stored |-> FALSE] :
                    c \in SUBSET EntitlementInputs, o \in ProfileInputs,
                    n \in ProfileInputs}

Calculate ==
    /\ calc # Null
    /\ calc.value = Null
    /\ calc' = [calc EXCEPT !.value =
                    _calculate_entitlement_changes(calc.current_entitlements,
                                                   calc.old_profile, calc.new_profile)]
    /\ UNCHANGED <<disk, identities, connectors, wf, pc, plan, planned, steps, errors,
                   audit, logged, result, raised, runs, calls, save_failed, other, clock>>

\* The state update that follows the two loops of MoverWorkflow.execute.
UpdateState ==
    /\ calc # Null
    /\ calc.value # Null
    /\ ~calc.stored
    /\ calc' = [calc EXCEPT
                    !.updated = updated_entitlements(calc.current_entitlements,
                                                     calc.value.to_remove,
                                                     calc.value.to_add),
                    !.stored = TRUE]
    /\ UNCHANGED <<disk, identities, connectors, wf, pc, plan, planned, steps, errors,
                   audit, logged, result, raised, runs, calls, save_failed, other, clock>>

NextChanges == Calculate \/ UpdateState

SpecChanges == InitChanges /\ [][NextChanges]_vars

(***************************************************************************)
(* Policy resolution on its own: the arguments of get_access_profile and   *)
(* of _merge_profiles are drawn from bounded sets and one action applies   *)
(* each function to them.                                                  *)
(***************************************************************************)
DepartmentInputs == Departments \cup {"Sales"}

TitleInputs ==
    {None, "Engineer", "Engineering Manager", "Chief Technology Officer",
     "Security Champion"}

ContractTypeInputs ==
    {"PERMANENT", "CONTRACTOR", "contractor", "Summer Intern", "INTERNAL", "temp",
     "TEMPORARY", "FIXED_TERM"}

MergeInputs ==
    {AccessProfile(d, None,
         [EmptyLists EXCEPT !.aws_roles = a, !.slack_channels = c]) :
        d \in {"Default", "Engineering"},
        a \in {<<>>, <<"EC2ReadOnly">>, <<"AdminAccess", "EC2ReadOnly">>},
        c \in {<<>>, <<"general">>, <<"general", "general">>}}

InitPolicy ==
    /\ disk = <<>>
    /\ identities = <<>>
    /\ connectors = SystemSet
    /\ wf = [kind |-> None, workflow_id |-> 0, event |-> Null, started_at |-> 0]
    /\ pc = "idle"
    /\ plan = <<>>
    /\ planned = <<>>
    /\ steps = <<>>
    /\ errors = <<>>
    /\ audit = <<>>
    /\ logged = 0
    /\ result = Null
    /\ raised = FALSE
    /\ runs = 0
    /\ calls = 0
    /\ other = NoInstance
    /\ save_failed = FALSE
    /\ clock = 1
    /\ calc \in
          {[op |-> "get_access_profile", department |-> d, title |-> t,
            contract_type |-> c, base |-> Null, additional |-> Null, value |-> Null] :
              d \in DepartmentInputs, t \in TitleInputs, c \in ContractTypeInputs}
          \cup
          {[op |-> "_merge_profiles", department |-> None, title |-> None,
            contract_type |-> None, base |-> b, additional |-> a, value |-> Null] :
              b \in MergeInputs, a \in MergeInputs}

Resolve ==
    /\ calc.op = "get_access_profile"
    /\ calc.value = Null
    /\ calc' = [calc EXCEPT !.value =
                    get_access_profile(calc.department, calc.title, calc.contract_type)]
    /\ UNCHANGED <<disk, identities, connectors, wf, pc, plan, planned, steps, errors,
                   audit, logged, result, raised, runs, calls, save_failed, other, clock>>

Merge ==
    /\ calc.op = "_merge_profiles"
    /\ calc.value = Null
    /\ calc' = [calc EXCEPT !.value = _merge_profiles(calc.base, calc.additional)]
    /\ UNCHANGED <<disk, identities, connectors, wf, pc, plan, planned, steps, errors,
                   audit, logged, result, raised, runs, calls, save_failed, other, clock>>

NextPolicy == Resolve \/ Merge

SpecPolicy == InitPolicy /\ [][NextPolicy]_vars

(***************************************************************************)
(* _execute_step on its own: the step, the registered connectors and what  *)
(* the connector does are drawn from bounded sets.                         *)
(***************************************************************************)
OperationInputs == DOMAIN method_map \cup {"rotate_keys"}

ParameterInputs == {{"user", "user_id"}, {"user_id", "role_name", "group_name"}, {}}

StepInputs ==
    {WorkflowStep(system, operation, "resource", parameters) :
        system \in {"aws", "azure"}, operation \in OperationInputs,
        parameters \in ParameterInputs}

InitStep ==
    /\ disk = <<>>
    /\ identities = <<>>
    /\ connectors \in {SystemSet, SystemSet \ {"aws"}}
    /\ wf = [kind |-> None, workflow_id |-> 0, event |-> Null, started_at |-> 0]
    /\ pc = "idle"
    /\ plan = <<>>
    /\ planned = <<>>
    /\ steps \in {<<step>> : step \in StepInputs}
    /\ errors = <<>>
    /\ audit = <<>>
    /\ logged = 0
    /\ result = Null
    /\ raised = FALSE
    /\ runs = 0
    /\ calls = 0
    /\ other = NoInstance
    /\ save_failed = FALSE
    /\ clock = 1
    /\ calc = Null

ExecuteStep(outcome) ==
    /\ calc = Null
    /\ LET x == _execute_step(steps[1], connectors, outcome) IN
       /\ steps' = <<x.step>>
       /\ errors' = IF x.error = Null THEN errors ELSE Append(errors, x.error)
       /\ raised' = x.raises
       /\ calc' = [step |-> steps[1], outcome |-> outcome, returns |-> x.returns]
    /\ UNCHANGED <<disk, identities, connectors, wf, pc, plan, planned, audit, logged,
                   result, runs, calls, save_failed, other, clock>>

NextStep == \E outcome \in ConnectorOutcomes : ExecuteStep(outcome)

SpecStep == InitStep /\ [][NextStep]_vars

(***************************************************************************)
(* The AuditLogger on its own: callers hand it records whose timestamps    *)
(* they have set, and read the log back with get_events.                   *)
(***************************************************************************)
Timestamps == 1..3

\* The records callers build; the id is set when the record is handed over.
RecordInputs ==
    {AuditRecord(0, timestamp, employee_id, "provision", "aws", "create_user",
                 "user_account", TRUE, None, 0) :
        timestamp \in Timestamps, employee_id \in EmployeeIds}

InitAudit ==
    /\ disk = <<>>
    /\ identities = <<>>
    /\ connectors = SystemSet
    /\ wf = [kind |-> None, workflow_id |-> 0, event |-> Null, started_at |-> 0]
    /\ pc = "idle"
    /\ plan = <<>>
    /\ planned = <<>>
    /\ steps = <<>>
    /\ errors = <<>>
    /\ audit = <<>>
    /\ logged = 0
    /\ result = Null
    /\ raised = FALSE
    /\ runs = 0
    /\ calls = 0
    /\ other = NoInstance
    /\ save_failed = FALSE
    /\ clock = 1
    /\ calc = Null

LogEvent(record, writeOk) ==
    /\ clock <= MaxRecords
    /\ LET w == log_event(audit, [record EXCEPT !.id = clock], writeOk) IN
       /\ audit' = w.log
       /\ raised' = w.raised
       /\ logged' = IF w.raised THEN logged ELSE w.id
    /\ clock' = clock + 1
    /\ calc' = Null
    /\ UNCHANGED <<disk, identities, connectors, wf, pc, plan, planned, steps, errors,
                   result, runs, calls, save_failed, other>>

GetEvents(employee_id, start_date, end_date, limit) ==
    /\ calc = Null
    /\ calc' = [employee_id |-> employee_id, start_date |-> start_date,
                end_date |-> end_date, limit |-> limit,
                value |-> get_events(audit, employee_id, start_date, end_date, limit)]
    /\ UNCHANGED <<disk, identities, connectors, wf, pc, plan, planned, steps, errors,
                   audit, logged, result, raised, runs, calls, save_failed, other, clock>>

NextAudit ==
    \/ \E record \in RecordInputs, writeOk \in BOOLEAN : LogEvent(record, writeOk)
    \/ \E employee_id \in EmployeeIds \cup {None}, start_date \in {<<>>, <<2>>},
          end_date \in {<<>>, <<2>>}, limit \in {2, 100} :
          GetEvents(employee_id, start_date, end_date, limit)

SpecAudit == InitAudit /\ [][NextAudit]_vars

(***************************************************************************)
(* The store as other callers use it: between workflow runs, a caller      *)
(* constructs a StateManager on the same document and calls one of its     *)
(* public methods.  MaxRuns bounds the execute calls and these calls       *)
(* together.                                                               *)
(***************************************************************************)
\* The events handed to create_or_update_identity: a hire, a termination
\* and a leave of absence, for either employee.
StoreEvents ==
    {HREvent(k, e, "Engineering", "PERMANENT", None, None) :
        k \in {"NEW_STARTER", "TERMINATION", "LEAVE_OF_ABSENCE"}, e \in EmployeeIds}

\* The entitlement lists a caller passes: empty, one entitlement, the same
\* entitlement twice, and two that differ in permission level only.
EntitlementLists ==
    LET assume == AccessEntitlement("aws", "role", "EC2ReadOnly", "assume")
        admin  == AccessEntitlement("aws", "role", "EC2ReadOnly", "admin")
    IN {<<>>, <<assume>>, <<assume, assume>>, <<assume, admin>>}

\* A call acts on the store as loaded from the document and leaves the
\* store ids; whatever it changed it has saved.
StoreCall(ids) ==
    /\ calls' = calls + 1
    /\ clock' = clock + 1
    /\ identities' = ids
    /\ disk' = IF ids # _load_state(disk) THEN _save_state(ids) ELSE disk
    /\ UNCHANGED <<connectors, wf, pc, plan, planned, steps, errors, audit, logged,
                   result, raised, runs, save_failed, other, calc>>

CreateOrUpdateIdentity(hr_event, entitlements) ==
    /\ pc = "idle"
    /\ runs + calls < MaxRuns
    /\ StoreCall(create_or_update_identity(_load_state(disk), hr_event, entitlements, clock))

UpdateEntitlements(employee_id, entitlements) ==
    /\ pc = "idle"
    /\ runs + calls < MaxRuns
    /\ StoreCall(update_entitlements(_load_state(disk), employee_id, entitlements, clock))

AddEntitlement(employee_id, entitlement) ==
    /\ pc = "idle"
    /\ runs + calls < MaxRuns
    /\ StoreCall(add_entitlement(_load_state(disk), employee_id, entitlement, clock))

RemoveEntitlement(employee_id, system, resource_name) ==
    /\ pc = "idle"
    /\ runs + calls < MaxRuns
    /\ StoreCall(remove_entitlement(_load_state(disk), employee_id, system, resource_name,
                                    clock))

DeactivateIdentity(employee_id) ==
    /\ pc = "idle"
    /\ runs + calls < MaxRuns
    /\ StoreCall(deactivate_identity(_load_state(disk), employee_id, clock))

NextStore ==
    \/ \E kind \in WorkflowKinds, hr_event \in HREvents, conns \in ConnectorTables :
          Execute(kind, hr_event, conns)
    \/ \E outcome \in ConnectorOutcomes, writeOk \in BOOLEAN : RunStep(outcome, writeOk)
    \/ Complete
    \/ \E hr_event \in StoreEvents,
          entitlements \in {Null} \cup {[list |-> l] : l \in EntitlementLists} :
          CreateOrUpdateIdentity(hr_event, entitlements)
    \/ \E employee_id \in EmployeeIds, entitlements \in EntitlementLists :
          UpdateEntitlements(employee_id, entitlements)
    \/ \E employee_id \in EmployeeIds, entitlement \in EntitlementInputs :
          AddEntitlement(employee_id, entitlement)
    \/ \E employee_id \in EmployeeIds, entitlement \in EntitlementInputs :
          RemoveEntitlement(employee_id, entitlement.system, entitlement.resource_name)
    \/ \E employee_id \in EmployeeIds : DeactivateIdentity(employee_id)

SpecStore == Init /\ [][NextStore]_vars

(***************************************************************************)
(* One StateManager over its lifetime: constructed on the document, then   *)
(* called up to MaxCalls times.  A write of the document may fail;         *)
(* _save_state logs the failure and returns.                               *)
(***************************************************************************)
InitSession ==
    /\ disk \in StoredDocuments
    /\ identities = _load_state(disk)
    /\ connectors = SystemSet
    /\ wf = [kind |-> None, workflow_id |-> 0, event |-> Null, started_at |-> 0]
    /\ pc = "idle"
    /\ plan = <<>>
    /\ planned = <<>>
    /\ steps = <<>>
    /\ errors = <<>>
    /\ audit = <<>>
    /\ logged = 0
    /\ result = Null
    /\ raised = FALSE
    /\ runs = 0
    /\ calls = 0
    /\ other = NoInstance
    /\ save_failed = FALSE
    /\ clock = 1
    /\ calc = Null

\* The events and the lists handed to the one store.
SessionEvents ==
    {HREvent("NEW_STARTER", e, "Engineering", "PERMANENT", None, None) : e \in EmployeeIds}
    \cup {HREvent("TERMINATION", "E1", "Engineering", "PERMANENT", None, None)}

SessionLists ==
    {<<>>, <<AccessEntitlement("aws", "role", "EC2ReadOnly", "assume"),
             AccessEntitlement("azure", "group", "Marketing", "member")>>}

\* Variant: only the records of the document are written back, a record
\* the store has added is left out.
Persist_KnownRecordsOnly(ids, saves, writeOk) ==
    /\ calls < MaxCalls
    /\ calls' = calls + 1
    /\ clock' = clock + 1
    /\ identities' = ids
    /\ disk' = IF saves /\ writeOk
               THEN _save_state([e \in DOMAIN ids \cap DOMAIN disk |-> ids[e]])
               ELSE disk
    /\ save_failed' = (saves /\ ~writeOk)
    /\ result' = [returns |-> saves]
    /\ raised' = FALSE
    /\ UNCHANGED <<connectors, wf, pc, plan, planned, steps, errors, audit, logged,
                   runs, other, calc>>

\* Variant: _save_state without its except clause: a failed write raises
\* out of the method.
Persist_RaisesWhenWriteFails(ids, saves, writeOk) ==
    /\ calls < MaxCalls
    /\ calls' = calls + 1
    /\ clock' = clock + 1
    /\ identities' = ids
    /\ disk' = IF saves /\ writeOk THEN _save_state(ids) ELSE disk
    /\ save_failed' = (saves /\ ~writeOk)
    /\ result' = IF saves /\ ~writeOk THEN Null ELSE [returns |-> saves]
    /\ raised' = (saves /\ ~writeOk)
    /\ UNCHANGED <<connectors, wf, pc, plan, planned, steps, errors, audit, logged,
                   runs, other, calc>>

\* The end of a method of the store: the in-memory identities are ids and,
\* where the method reaches _save_state, the whole store is written to the
\* document unless the write fails (the failure is logged, not raised).  The
\* method returns a true value exactly on the path that reaches _save_state.
Persist(ids, saves, writeOk) ==
    /\ calls < MaxCalls
    /\ calls' = calls + 1
    /\ clock' = clock + 1
    /\ identities' = ids
    /\ disk' = IF saves /\ writeOk THEN _save_state(ids) ELSE disk
    /\ save_failed' = (saves /\ ~writeOk)
    /\ result' = [returns |-> saves]
    /\ raised' = FALSE
    /\ UNCHANGED <<connectors, wf, pc, plan, planned, steps, errors, audit, logged,
                   runs, other, calc>>

Upsert(hr_event, entitlements, writeOk) ==
    /\ pc = "idle"
    /\ Persist(create_or_update_identity(identities, hr_event, entitlements, clock),
                TRUE, writeOk)

SetEntitlements(employee_id, entitlements, writeOk) ==
    /\ pc = "idle"
    /\ Persist(update_entitlements(identities, employee_id, entitlements, clock),
                employee_id \in DOMAIN identities, writeOk)

AddOne(employee_id, entitlement, writeOk) ==
    /\ pc = "idle"
    /\ LET ids == add_entitlement(identities, employee_id, entitlement, clock)
       IN Persist(ids, ids # identities, writeOk)

RemoveOne(employee_id, system, resource_name, writeOk) ==
    /\ pc = "idle"
    /\ LET ids == remove_entitlement(identities, employee_id, system, resource_name, clock)
       IN Persist(ids, ids # identities, writeOk)

Deactivate(employee_id, writeOk) ==
    /\ pc = "idle"
    /\ Persist(deactivate_identity(identities, employee_id, clock),
                employee_id \in DOMAIN identities, writeOk)

NextSession ==
    \/ \E hr_event \in SessionEvents, writeOk \in BOOLEAN :
          \/ Upsert(hr_event, Null, writeOk)
          \/ \E l \in SessionLists : Upsert(hr_event, [list |-> l], writeOk)
    \/ \E employee_id \in EmployeeIds, l \in SessionLists, writeOk \in BOOLEAN :
          SetEntitlements(employee_id, l, writeOk)
    \/ \E employee_id \in EmployeeIds, l \in SessionLists \ {<<>>}, writeOk \in BOOLEAN :
          AddOne(employee_id, l[1], writeOk)
    \/ \E employee_id \in EmployeeIds, l \in SessionLists \ {<<>>}, writeOk \in BOOLEAN :
          RemoveOne(employee_id, l[1].system, l[1].resource_name, writeOk)
    \/ \E employee_id \in EmployeeIds, writeOk \in BOOLEAN :
          Deactivate(employee_id, writeOk)

SpecSession == InitSession /\ [][NextSession]_vars

(***************************************************************************)
(* Two callers at once on the same state file and audit directory, each    *)
(* with an instance of its own (execute_workflow_async dispatched in       *)
(* parallel).  One instance runs at a time; Switch hands the processor to  *)
(* the other one between two steps.  The connectors answer with success    *)
(* and the audit writes hold.                                              *)
(***************************************************************************)
Switch ==
    /\ other' = Instance(identities, connectors, wf, pc, plan, planned, steps, errors,
                         result, raised, runs)
    /\ identities' = other.identities
    /\ connectors' = other.connectors
    /\ wf' = other.wf
    /\ pc' = other.pc
    /\ plan' = other.plan
    /\ planned' = other.planned
    /\ steps' = other.steps
    /\ errors' = other.errors
    /\ result' = other.result
    /\ raised' = other.raised
    /\ runs' = other.runs
    /\ UNCHANGED <<disk, audit, logged, calls, save_failed, clock, calc>>

\* The calls the two callers make: a hire, a department change and a
\* termination, for either employee.
ConcurrentCalls ==
    {<<"joiner", HREvent("NEW_STARTER", e, "Engineering", "PERMANENT", None, None)>> :
        e \in EmployeeIds}
    \cup {<<"mover", HREvent("DEPARTMENT_CHANGE", e, "Marketing", "PERMANENT",
                              "Engineering", None)>> : e \in EmployeeIds}
    \cup {<<"leaver", HREvent("TERMINATION", e, "Engineering", "PERMANENT", None, None)>> :
        e \in EmployeeIds}

NextConcurrent ==
    \/ \E call \in ConcurrentCalls : Execute(call[1], call[2], SystemSet)
    \/ RunStep("ok", TRUE)
    \/ Complete
    \/ Switch

SpecConcurrent == Init /\ [][NextConcurrent]_vars

(***************************************************************************)
(* Properties.                                                             *)
(***************************************************************************)
\* The last execute call has returned a WorkflowResult.
Returned == pc = "idle" /\ result # Null

\* An entry of the failure boundary (an orchestration error) is in the list.
OrchestrationError(errs) == \E i \in 1..Len(errs) : errs[i].system = None

\* No write to the audit file failed during the run.
AuditWritesHeld(errs) == \A i \in 1..Len(errs) : errs[i].kind # "audit_write_error"

\* The step as it was generated, before its outcome was marked on it.
AsGenerated(step) == [step EXCEPT !.success = FALSE, !.error = None]

\* The kinds each variant handles, as the variants are described.
Handles(kind, event_kind) ==
    \/ kind = "joiner" /\ event_kind = "NEW_STARTER"
    \/ kind = "mover"  /\ event_kind \in {"ROLE_CHANGE", "DEPARTMENT_CHANGE"}
    \/ kind = "leaver" /\ event_kind \in {"TERMINATION", "CONTRACTOR_OFFBOARDING"}

\* C1: in every execution the steps attempted so far are the first of the
\* generated steps, in the generated order, and when the run has returned
\* (its audit writes having held) every generated step has been attempted:
\* a failed step never keeps a later one from being attempted.
C1_FailOpenInGeneratedOrder ==
    /\ Len(steps) <= Len(planned)
    /\ \A i \in 1..Len(steps) : AsGenerated(steps[i]) = planned[i].step
    /\ (Returned /\ AuditWritesHeld(result.errors)) => Len(steps) = Len(planned)

\* C2: a Joiner run that reached its steps returns a result listing all
\* five create_user actions; with N of them failed, success is false when
\* N > 0 and the errors list has exactly N entries for those failures.
C2_FiveCreateUserActions ==
    (Returned /\ wf.kind = "joiner" /\ planned # <<>>
        /\ AuditWritesHeld(result.errors)) =>
    LET acts == result.actions_taken
        created == {i \in 1..Len(acts) : acts[i].operation = "create_user"}
        failed == {i \in created : ~acts[i].success}
        entries == {j \in 1..Len(result.errors) :
                        result.errors[j].operation = "create_user"}
    IN /\ Cardinality(created) = 5
       /\ (failed # {} => ~result.success)
       /\ Cardinality(entries) = Cardinality(failed)

C4_UnhandledKindRaises ==
    [][(runs' = runs + 1 /\ ~Handles(wf'.kind, wf'.event.event)) =>
          /\ raised'
          /\ result' = Null
          /\ steps' = <<>>
          /\ audit' = audit
          /\ disk' = disk
          /\ identities' = disk
          /\ pc' = "idle"]_vars

\* C4 witness: a Mover handed a NEW_STARTER event raised while the store
\* held an identity.
C4_Witness ==
    /\ raised
    /\ wf.kind = "mover"
    /\ wf.event.event = "NEW_STARTER"
    /\ DOMAIN disk # {}

\* C5: a Mover call for an employee without a stored identity returns a
\* result with success false, no actions and a "not found" error; no step
\* is attempted, no audit record written, no identity created or changed.
C5_MoverWithoutIdentity ==
    [][(/\ runs' = runs + 1
        /\ wf'.kind = "mover"
        /\ wf'.event.event \in {"ROLE_CHANGE", "DEPARTMENT_CHANGE"}
        /\ wf'.event.employee_id \notin DOMAIN disk) =>
          /\ ~raised'
          /\ result' # Null
          /\ ~result'.success
          /\ result'.actions_taken = <<>>
          /\ \E i \in 1..Len(result'.errors) : result'.errors[i].kind = "not_found"
          /\ steps' = <<>>
          /\ audit' = audit
          /\ disk' = disk
          /\ identities' = disk
          /\ pc' = "idle"]_vars

\* C5 witness: a Mover run returned "not found" for one employee while the
\* store held another.
C5_Witness ==
    /\ Returned
    /\ wf.kind = "mover"
    /\ \E i \in 1..Len(result.errors) : result.errors[i].kind = "not_found"
    /\ wf.event.employee_id \notin DOMAIN disk
    /\ DOMAIN disk # {}

C7_DisjointDelta ==
    (calc # Null /\ calc.value # Null) =>
        Range(calc.value.to_remove) \cap Range(calc.value.to_add) = {}

\* C7 witness: a computed delta with something to remove and something to
\* add, for a current set that shares an entitlement with the new profile.
C7_Witness ==
    /\ calc # Null
    /\ calc.value # Null
    /\ calc.value.to_remove # <<>>
    /\ calc.value.to_add # <<>>
    /\ Range(calc.current_entitlements)
          \cap Range(_profile_to_entitlements(calc.new_profile)) # {}

C9_JoinerActions ==
    (Returned /\ wf.kind = "joiner" /\ planned # <<>>
        /\ AuditWritesHeld(result.errors)) =>
    LET acts == result.actions_taken
        ents == _profile_to_entitlements(get_access_profile_from_event(wf.event))
    IN /\ Len(acts) = 5 + Len(ents)
       /\ \A i \in 1..5 :
             acts[i].operation = "create_user" /\ acts[i].system = Systems[i]
       /\ \A i \in 1..Len(ents) :
             /\ acts[5 + i].system = ents[i].system
             /\ acts[5 + i].resource = ents[i].resource_name
             /\ acts[5 + i].operation =
                   IF ents[i].resource_type = "role" THEN "grant_role"
                   ELSE "add_to_group"

\* C10: after a Joiner run that reached its steps has returned, the
\* entitlement set stored for the employee is the full set of the desired
\* profile, whichever steps failed.
C10_JoinerStoresDesiredSet ==
    (Returned /\ wf.kind = "joiner" /\ planned # <<>>
        /\ AuditWritesHeld(result.errors)) =>
    LET e == wf.event.employee_id IN
    /\ e \in DOMAIN disk
    /\ Range(disk[e].entitlements) =
          Range(_profile_to_entitlements(get_access_profile_from_event(wf.event)))

\* C11: when a Mover run on an existing identity ends (its audit writes
\* having held), its actions are one removal step per entitlement to remove
\* (revoke_role for a role, remove_from_group otherwise) followed by one
\* addition step per entitlement to add (grant_role for a role,
\* add_to_group otherwise): |toRemove| + |toAdd| actions, removals first.
C11_MoverRemovalsThenAdditions ==
    [][(/\ wf.kind = "mover"
        /\ pc # "idle"
        /\ pc' = "idle"
        /\ result' # Null
        /\ AuditWritesHeld(result'.errors)) =>
          LET e == wf.event.employee_id
              ch == _calculate_entitlement_changes(
                        disk[e].entitlements,
                        _get_old_access_profile(wf.event),
                        get_access_profile_from_event(wf.event))
              r == Len(ch.to_remove)
              acts == result'.actions_taken
          IN /\ Len(acts) = r + Len(ch.to_add)
             /\ \A i \in 1..Len(acts) :
                   IF i <= r
                   THEN /\ acts[i].system = ch.to_remove[i].system
                        /\ acts[i].resource = ch.to_remove[i].resource_name
                        /\ acts[i].operation =
                              IF ch.to_remove[i].resource_type = "role"
                              THEN "revoke_role" ELSE "remove_from_group"
                   ELSE /\ acts[i].system = ch.to_add[i - r].system
                        /\ acts[i].resource = ch.to_add[i - r].resource_name
                        /\ acts[i].operation =
                              IF ch.to_add[i - r].resource_type = "role"
                              THEN "grant_role" ELSE "add_to_group"]_vars

\* The actions are one revocation step per entitlement of the list, in its
\* order, followed by the five delete_user steps, one per system.
RevocationsThenDeletions(acts, ents) ==
    LET n == Len(ents) IN
    /\ Len(acts) = n + 5
    /\ \A i \in 1..n :
          /\ acts[i].system = ents[i].system
          /\ acts[i].resource = ents[i].resource_name
          /\ acts[i].operation \in {"revoke_role", "remove_from_group"}
    /\ \A i \in 1..5 :
          /\ acts[n + i].operation = "delete_user"
          /\ acts[n + i].system = Systems[i]

NotFatal(res, rsd, ids, doc, employee_id) ==
    /\ ~rsd
    /\ res # Null
    /\ Len(res.actions_taken) = 5
    /\ \A i \in 1..5 :
          /\ res.actions_taken[i].operation = "delete_user"
          /\ res.actions_taken[i].system = Systems[i]
    /\ ~OrchestrationError(res.errors)
    /\ employee_id \notin DOMAIN ids
    /\ employee_id \notin DOMAIN doc

ConnectorsSucceeded(conns, errs) ==
    /\ conns = SystemSet
    /\ \A i \in 1..Len(errs) :
          errs[i].kind \notin {"no_connector", "connector_error", "exception"}

\* C15: when every registered connector returned a successful result for
\* every call made to it (and the audit writes held), the returned result
\* has every step successful, success true and no errors; so a Mover run
\* with a non-empty delta and a Leaver run with held entitlements succeed.
C15_ConnectorsSucceedRunSucceeds ==
    (/\ Returned
     /\ planned # <<>>
     /\ AuditWritesHeld(result.errors)
     /\ ConnectorsSucceeded(connectors, result.errors)) =>
        /\ \A i \in 1..Len(result.actions_taken) : result.actions_taken[i].success
        /\ result.success
        /\ result.errors = <<>>

\* C16: when a Joiner run ends (its audit writes having held) for an
\* employee whose identity an earlier Joiner run with the same NEW_STARTER
\* event had stored, the store still holds exactly the records it held, one
\* for the employee, and that record's updated_at is strictly later than it
\* was after the first run.
C16_SecondJoinerUpdates ==
    [][(/\ wf.kind = "joiner"
        /\ pc # "idle"
        /\ pc' = "idle"
        /\ result' # Null
        /\ AuditWritesHeld(result'.errors)
        /\ wf.event.employee_id \in DOMAIN disk
        /\ disk[wf.event.employee_id].created_at < wf.started_at
        /\ disk[wf.event.employee_id].last_hr_event = "NEW_STARTER"
        /\ disk[wf.event.employee_id].department = wf.event.department) =>
          /\ DOMAIN disk' = DOMAIN disk
          /\ disk'[wf.event.employee_id].updated_at
                > disk[wf.event.employee_id].updated_at]_vars

\* C17: in every state reached by workflow runs and store calls, no
\* identity holds two entitlement records with the same (system,
\* resource_type, resource_name, permission_level).
C17_UniqueEntitlements ==
    \A e \in DOMAIN disk :
        \A i, j \in 1..Len(disk[e].entitlements) :
            disk[e].entitlements[i] = disk[e].entitlements[j] => i = j

C19_TerminatedIsTerminal ==
    [][\A e \in DOMAIN disk :
          disk[e].status = "TERMINATED" =>
             (e \in DOMAIN disk' => disk'[e].status = "TERMINATED")]_vars

\* The audit records written by the run with the given id, in the order of
\* the log.
RecordsOfRun(log, workflow_id) ==
    LET ofRun(record) == record.workflow_id = workflow_id IN SelectSeq(log, ofRun)

\* C20: at every point of a run (no write to the audit file having failed)
\* each step attempted so far has exactly one audit record, written before
\* the next step is attempted: the records of the run are as many as the
\* steps attempted, in the same order, each carrying its step's system,
\* resource and success flag and the workflow's id.
C20_OneAuditRecordPerStep ==
    (wf.kind # None /\ AuditWritesHeld(errors)) =>
        LET records == RecordsOfRun(audit, wf.workflow_id) IN
        /\ Len(records) = Len(steps)
        /\ \A i \in 1..Len(steps) :
              /\ records[i].system = steps[i].system
              /\ records[i].resource = steps[i].resource
              /\ records[i].success = steps[i].success

\* The first sequence is a prefix of the second.
IsPrefix(s, t) == Len(s) <= Len(t) /\ \A i \in 1..Len(s) : s[i] = t[i]

\* C21: the audit log is append-only: every step of the program leaves the
\* records already written in place and unchanged, so the earlier log is a
\* prefix of the later one; a log_event call that returns has added exactly
\* one record, the last of the log, and returned that record's id.
C21_AuditAppendOnly ==
    [][/\ IsPrefix(audit, audit')
       /\ Len(audit') <= Len(audit) + 1
       /\ logged' # logged =>
             /\ Len(audit') = Len(audit) + 1
             /\ audit'[Len(audit')].id = logged'
       /\ Len(audit') = Len(audit) + 1 => logged' # logged]_vars

\* C21 witness: the log holds three records or more, the last of them the
\* one whose id the last call returned.
C21_Witness ==
    /\ Len(audit) >= 3
    /\ audit[Len(audit)].id = logged
    /\ \A i, j \in 1..Len(audit) : audit[i].id = audit[j].id => i = j

\* The instance has run for its employee and its call is over.
Finished(inst) == inst.wf.kind # None /\ inst.pc = "idle"

\* The document holds the employee of the instance's run as the store of
\* that instance has left it: the entitlements and the status the run wrote.
Survives(inst, doc) ==
    LET e == inst.wf.event.employee_id IN
    e \in DOMAIN inst.identities =>
        /\ e \in DOMAIN doc
        /\ doc[e].entitlements = inst.identities[e].entitlements
        /\ doc[e].status = inst.identities[e].status

\* C22: when two executions for different employees have run concurrently
\* on the same document and both are over, the document holds both
\* employees' identities with the entitlements and status each run wrote,
\* whatever the interleaving was.
C22_BothUpdatesSurvive ==
    LET this == Instance(identities, connectors, wf, pc, plan, planned, steps, errors,
                         result, raised, runs)
    IN (/\ Finished(this)
        /\ Finished(other)
        /\ this.wf.event.employee_id # other.wf.event.employee_id) =>
            Survives(this, disk) /\ Survives(other, disk)

\* A call has acted on the identities the store holds in memory: no record
\* of the store is gone and at most one employee's record has changed.
ActedOnMemory(before, after) ==
    /\ DOMAIN before \subseteq DOMAIN after
    /\ \E e \in EmployeeIds : \A x \in DOMAIN before \ {e} : after[x] = before[x]

ListsOf(profile) ==
    [aws_roles |-> profile.aws_roles, azure_groups |-> profile.azure_groups,
     github_teams |-> profile.github_teams, google_groups |-> profile.google_groups,
     slack_channels |-> profile.slack_channels]

\* The inputs of the policy resolution, as the claims class them.
ContractorTypes == {"CONTRACTOR", "contractor"}

InternOrTempTypes == {"Summer Intern", "INTERNAL", "temp", "TEMPORARY"}

MatchedTitles ==
    {"Engineering Manager", "Chief Technology Officer", "Security Champion"}

Resolved == calc # Null /\ calc.op = "get_access_profile" /\ calc.value # Null

Merged == calc # Null /\ calc.op = "_merge_profiles" /\ calc.value # Null

\* C24: for contract type CONTRACTOR, or one matching the intern/temp
\* pattern, and a title that no title mapping matches, the lists of the
\* resolved profile are exactly those of contractor_access (intern_access):
\* nothing of the default and department layers is kept.
C24_ContractLayerReplaces ==
    (Resolved /\ calc.title \notin MatchedTitles) =>
        /\ calc.contract_type \in ContractorTypes =>
              ListsOf(calc.value) = access_matrix.contractor_access
        /\ calc.contract_type \in InternOrTempTypes =>
              ListsOf(calc.value) = access_matrix.intern_access

\* C24 witness: an intern of Engineering with an unmatched title is resolved
\* to the intern lists, without the role of the department.
C24_Witness ==
    /\ Resolved
    /\ calc.department = "Engineering"
    /\ calc.title = "Engineer"
    /\ calc.contract_type = "Summer Intern"
    /\ access_matrix.departments["Engineering"].aws_roles = <<"EC2ReadOnly">>
    /\ calc.value.aws_roles = <<>>
    /\ calc.value.slack_channels = <<"general", "interns">>

\* C25: for a title whose first matching pattern names an access_override
\* profile, the lists of the resolved profile hold exactly the names of the
\* override profile, nothing of the default, department and contract layers.
C25_TitleOverrideReplaces ==
    (Resolved /\ calc.title = "Chief Technology Officer") =>
        \A f \in Range(ProfileFields) :
            Range(calc.value[f]) = Range(access_matrix.executive_access[f])

\* C26: each list of a merged profile holds the names of both inputs' lists,
\* each once; a merge with a profile of empty lists, on either side, keeps
\* the names of the other profile's lists.
C26_MergeIsUnion ==
    Merged =>
        \A f \in Range(ProfileFields) :
            /\ Range(calc.value[f]) = Range(calc.base[f]) \cup Range(calc.additional[f])
            /\ Len(calc.value[f]) = Cardinality(Range(calc.value[f]))
            /\ ListsOf(calc.additional) = EmptyLists =>
                  Range(calc.value[f]) = Range(calc.base[f])
            /\ ListsOf(calc.base) = EmptyLists =>
                  Range(calc.value[f]) = Range(calc.additional[f])

\* C26 witness: two profiles that share a role are merged, and a list that
\* names a channel twice is merged with an empty list.
C26_Witness ==
    /\ Merged
    /\ calc.base.aws_roles = <<"AdminAccess", "EC2ReadOnly">>
    /\ calc.additional.aws_roles = <<"EC2ReadOnly">>
    /\ Len(calc.value.aws_roles) = 2
    /\ calc.base.slack_channels = <<"general", "general">>
    /\ calc.additional.slack_channels = <<>>
    /\ calc.value.slack_channels = <<"general">>

\* C27: a Joiner or Mover run in which a call to a connector returned a
\* failed result returns success true, with a non-empty list of errors.
C27_SucceedsDespiteConnectorFailures ==
    (/\ Returned
     /\ wf.kind \in {"joiner", "mover"}
     /\ \E i \in 1..Len(result.errors) : result.errors[i].kind = "connector_error") =>
        /\ result.success
        /\ result.errors # <<>>

\* The six operations a step may name.
KnownOperations ==
    {"create_user", "delete_user", "add_to_group", "remove_from_group", "grant_role",
     "revoke_role"}

\* C28: _execute_step never raises.  For a step whose system has no
\* registered connector, whose operation is not one of the six, or whose
\* connector call raises, it returns false, the step is marked failed with
\* an error text and exactly one entry is appended to the list of errors;
\* when the connector returns a successful result the step is marked
\* successful, true is returned and nothing is appended.
C28_ExecuteStepNeverRaises ==
    calc # Null =>
        LET called == /\ calc.step.system \in connectors
                      /\ calc.step.operation \in KnownOperations
                      /\ method_map[calc.step.operation] \subseteq calc.step.parameters
        IN /\ ~raised
           /\ steps[1] = [calc.step EXCEPT !.success = steps[1].success,
                                           !.error = steps[1].error]
           /\ (\/ calc.step.system \notin connectors
               \/ calc.step.operation \notin KnownOperations
               \/ called /\ calc.outcome = "raise") =>
                  /\ calc.returns = FALSE
                  /\ ~steps[1].success
                  /\ steps[1].error # None
                  /\ Len(errors) = 1
           /\ (called /\ calc.outcome = "ok") =>
                  /\ calc.returns = TRUE
                  /\ steps[1].success
                  /\ errors = <<>>

\* C28 witness: the aws connector raised when grant_role was called on it;
\* the step is marked failed and one entry names the exception.
C28_Witness ==
    /\ calc # Null
    /\ calc.step.system = "aws"
    /\ "aws" \in connectors
    /\ calc.step.operation = "grant_role"
    /\ calc.outcome = "raise"
    /\ ~raised
    /\ ~steps[1].success
    /\ Len(errors) = 1
    /\ errors[1].kind = "exception"

\* C29: an Upsert without a list of entitlements, for an employee the store
\* has a record of, changes in that record only department, title, status,
\* updated_at and the last event (name and email are not modelled): its
\* entitlements and created_at, the other records and the number of records
\* are as they were.
C29_UpsertKeepsEntitlements ==
    [][\A hr_event \in SessionEvents, writeOk \in BOOLEAN :
          (hr_event.employee_id \in DOMAIN identities /\ Upsert(hr_event, Null, writeOk)) =>
              LET e == hr_event.employee_id IN
              /\ DOMAIN identities' = DOMAIN identities
              /\ \A x \in DOMAIN identities \ {e} : identities'[x] = identities[x]
              /\ identities'[e] =
                    [identities[e] EXCEPT !.department = hr_event.department,
                                          !.title = hr_event.title,
                                          !.status = identities'[e].status,
                                          !.updated_at = identities'[e].updated_at,
                                          !.last_hr_event = hr_event.event]
              /\ identities'[e].updated_at > identities[e].updated_at]_vars

\* C29 witness: the record of E1, stored by a hire into Marketing, has been
\* moved to Engineering by one Upsert and still holds the entitlements and
\* the created_at of the document the store was loaded from.
C29_Witness ==
    /\ calls = 1
    /\ "E1" \in DOMAIN identities
    /\ identities["E1"].department = "Engineering"
    /\ LET stored == _load_state(JoinedDocument("E1", "Marketing", "PERMANENT"))["E1"] IN
       /\ stored.department = "Marketing"
       /\ stored.entitlements # <<>>
       /\ identities["E1"].entitlements = stored.entitlements
       /\ identities["E1"].created_at = stored.created_at
       /\ identities["E1"].updated_at > stored.updated_at

\* C30: when a Mover run for an employee the store has a record of has
\* completed (its steps attempted and its result built after them), the
\* record a store loaded from the document holds for the employee has the
\* department and the title of the event.
C30_MoverPersistsDepartment ==
    [][(/\ wf'.kind = "mover"
        /\ pc' = "idle"
        /\ (pc # "idle" \/ runs' = runs + 1)
        /\ result' # Null
        /\ ~OrchestrationError(result'.errors)) =>
          LET e == wf'.event.employee_id
              loaded == _load_state(disk')
          IN /\ e \in DOMAIN loaded
             /\ loaded[e].department = wf'.event.department
             /\ loaded[e].title = wf'.event.title]_vars

\* C31: get_events returns the records most recent first: of two records
\* of the returned list the earlier has a timestamp that is not older than
\* the later one's, whatever timestamps the logged records had; and every
\* returned record passes the employee and time-range filters.
C31_MostRecentFirst ==
    (calc # Null) =>
        /\ \A i, j \in 1..Len(calc.value) :
              i < j => calc.value[i].timestamp >= calc.value[j].timestamp
        /\ \A i \in 1..Len(calc.value) :
              Passes(calc.value[i], calc.employee_id, calc.start_date, calc.end_date)

\* C32: a run that passed the precondition on the event kind goes from
\* started through its steps to a returned result, once: it attempts no
\* more steps than were generated, it ends (each connector call returning)
\* with a result, and the result has started_at and completed_at set,
\* completed_at not earlier than started_at.
C32_RunTerminates ==
    /\ []((pc # "idle") => (wf.started_at > 0 /\ result = Null /\ Len(steps) <= Len(planned)))
    /\ []((pc # "idle") => <>Returned)
    /\ [](Returned =>
            /\ result.started_at = wf.started_at
            /\ result.started_at > 0
            /\ result.completed_at >= result.started_at
            /\ Len(result.actions_taken) <= Len(planned))

\* C32 witness: a run that attempted its five or more steps has returned
\* from the normal path, later than it started.
C32_Witness ==
    /\ Returned
    /\ ~OrchestrationError(result.errors)
    /\ Len(result.actions_taken) >= 5
    /\ result.completed_at > result.started_at

\* C33: the core does not serialize the mutators of a document.  A save
\* writes the saving instance's own identities over the whole document,
\* nothing of what the document held is read again or kept; so two runs for
\* one employee can interleave so that the document reflects one of them
\* only (the witness).
C33_SaveOverwritesDocument ==
    [][(disk' # disk) =>
          /\ DOMAIN disk' = DOMAIN identities'
          /\ \A e \in DOMAIN disk' :
                /\ disk'[e].entitlements = identities'[e].entitlements
                /\ disk'[e].status = identities'[e].status]_vars

\* C33 witness: a Mover run and a Leaver run for E1 are both over, each has
\* returned from its normal path, the Leaver's store holds E1 as TERMINATED,
\* and the document, written last by the Mover, holds E1 as ACTIVE.
C33_Witness ==
    /\ Finished(other)
    /\ other.wf.kind = "leaver"
    /\ other.wf.event.employee_id = "E1"
    /\ other.result # Null
    /\ ~OrchestrationError(other.result.errors)
    /\ "E1" \in DOMAIN other.identities
    /\ other.identities["E1"].status = "TERMINATED"
    /\ wf.kind = "mover"
    /\ wf.event.employee_id = "E1"
    /\ Returned
    /\ result.success
    /\ "E1" \in DOMAIN disk
    /\ disk["E1"].status = "ACTIVE"

AdjustedDocument(employee_id, department) ==
    _save_state(
        update_entitlements(
            _load_state(JoinedDocument(employee_id, department, "PERMANENT")),
            employee_id,
            <<AccessEntitlement("aws", "role", "EC2ReadOnly", "admin"),
              AccessEntitlement("slack", "channel", "general", "member")>>,
            0))

\* A process that starts on the adjusted document.
InitAdjusted ==
    /\ disk = AdjustedDocument("E1", "Engineering")
    /\ identities = <<>>
    /\ connectors = SystemSet
    /\ wf = [kind |-> None, workflow_id |-> 0, event |-> Null, started_at |-> 0]
    /\ pc = "idle"
    /\ plan = <<>>
    /\ planned = <<>>
    /\ steps = <<>>
    /\ errors = <<>>
    /\ audit = <<>>
    /\ logged = 0
    /\ result = Null
    /\ raised = FALSE
    /\ runs = 0
    /\ calls = 0
    /\ other = NoInstance
    /\ save_failed = FALSE
    /\ clock = 1
    /\ calc = Null

SpecAdjusted == InitAdjusted /\ [][Next]_vars

\* A held entitlement and one of the new profile that name the same resource
\* at different permission levels.
SameResourceOtherLevel(held, new) ==
    /\ held.system = new.system
    /\ held.resource_type = new.resource_type
    /\ held.resource_name = new.resource_name
    /\ held.permission_level # new.permission_level

\* C35: in a Mover run on an existing identity (its audit writes having
\* held), when a held entitlement and an entitlement of the new profile agree
\* on system, resource_type and resource_name but differ in permission_level,
\* the held one is in toRemove, the new one is in toAdd, and the run's
\* actions hold both a revocation step and a grant step for that resource.
C35_LevelChangeRevokesAndGrants ==
    [][(/\ wf.kind = "mover"
        /\ pc # "idle"
        /\ pc' = "idle"
        /\ result' # Null
        /\ wf.event.employee_id \in DOMAIN disk
        /\ AuditWritesHeld(result'.errors)) =>
          LET e == wf.event.employee_id
              new_profile == get_access_profile_from_event(wf.event)
              ch == _calculate_entitlement_changes(
                        disk[e].entitlements,
                        _get_old_access_profile(wf.event),
                        new_profile)
              acts == result'.actions_taken
          IN \A held \in Range(disk[e].entitlements),
                new \in Range(_profile_to_entitlements(new_profile)) :
                SameResourceOtherLevel(held, new) =>
                    /\ held \in Range(ch.to_remove)
                    /\ new \in Range(ch.to_add)
                    /\ \E i \in 1..Len(acts) :
                          /\ acts[i].system = held.system
                          /\ acts[i].resource = held.resource_name
                          /\ acts[i].operation =
                                _get_removal_operation(held.resource_type)
                    /\ \E j \in 1..Len(acts) :
                          /\ acts[j].system = new.system
                          /\ acts[j].resource = new.resource_name
                          /\ acts[j].operation =
                                _get_addition_operation(new.resource_type)]_vars

ExecuteAgain(hr_event) ==
    /\ pc = "idle"
    /\ wf.kind # None
    /\ 0 < runs
    /\ runs <= MaxRuns
    /\ runs' = runs + 1
    /\ clock' = clock + 1
    /\ wf' = [wf EXCEPT !.event = hr_event, !.started_at = clock]
    /\ IF ~AcceptsEvent(wf.kind, hr_event)
       THEN /\ raised' = TRUE
            /\ result' = Null
            /\ errors' = errors
            /\ pc' = "idle"
            /\ plan' = <<>>
            /\ planned' = <<>>
            /\ identities' = identities
            /\ disk' = disk
       ELSE LET p == Prologue(wf.kind, identities, hr_event, clock) IN
            /\ identities' = p.ids
            /\ disk' = IF p.saved THEN _save_state(p.ids) ELSE disk
            /\ plan' = p.plan
            /\ planned' = p.plan
            /\ IF p.exc # None /\ ~ExceptClause(p.exc)
               THEN /\ raised' = TRUE
                    /\ errors' = errors
                    /\ result' = Null
                    /\ pc' = "idle"
               ELSE IF p.exc # None
               THEN /\ raised' = FALSE
                    /\ errors' = FailureBoundary(wf', steps, errors, p.exc, clock).errors
                    /\ result' = FailureBoundary(wf', steps, errors, p.exc, clock).result
                    /\ pc' = "idle"
               ELSE /\ raised' = FALSE
                    /\ errors' = errors
                    /\ result' = Null
                    /\ pc' = IF p.plan = <<>> THEN "post" ELSE "steps"
    /\ UNCHANGED <<connectors, steps, audit, logged, calls, save_failed, other, calc>>

\* A caller that keeps its workflow instance and calls execute on it again.
NextReuse ==
    \/ Next
    \/ \E hr_event \in HREvents : ExecuteAgain(hr_event)

SpecReuse == InitAdjusted /\ [][NextReuse]_vars

\* The run in hand comes from a later execute call on its instance: the
\* instance's workflow_id dates from its construction, started_at from the
\* call.
CalledAgain == wf.kind # None /\ wf.started_at > wf.workflow_id

\* C37: the result of a second execute call on a workflow instance reports
\* only that call's steps and errors: no more actions than the call
\* generated steps, and no more errors than one per step and one for the
\* failure boundary.
C37_ResultOfThisCallOnly ==
    (CalledAgain /\ pc = "idle" /\ result # Null) =>
        /\ Len(result.actions_taken) <= Len(planned)
        /\ Len(result.errors) <= Len(planned) + 1

\* A stored record with its status and updated_at masked.
ApartFromStatus(record) == [record EXCEPT !.status = None, !.updated_at = 0]

\* C38: no step of a Leaver run changes anything of a stored identity but
\* its status and updated_at: the entitlements recorded for the employee
\* stay as they were, whatever the revocation steps returned.
C38_LeaverKeepsEntitlements ==
    [][(wf'.kind = "leaver" /\ (wf.kind = "leaver" \/ pc = "idle")) =>
          \A e \in DOMAIN disk :
             /\ e \in DOMAIN disk'
             /\ ApartFromStatus(disk'[e]) = ApartFromStatus(disk[e])
             /\ disk'[e].entitlements = disk[e].entitlements]_vars

\* C38 witness: a Leaver run has returned after attempting revocation steps
\* and has stored the employee as TERMINATED, entitlements still recorded.
C38_Witness ==
    /\ wf.kind = "leaver"
    /\ Returned
    /\ \E i \in 1..Len(result.actions_taken) :
          result.actions_taken[i].operation \in {"revoke_role", "remove_from_group"}
    /\ wf.event.employee_id \in DOMAIN disk
    /\ disk[wf.event.employee_id].status = "TERMINATED"
    /\ disk[wf.event.employee_id].entitlements # <<>>

\* The last entry of a result's errors is the failed audit write.
EndedByAuditWrite(res) ==
    /\ res.errors # <<>>
    /\ res.errors[Len(res.errors)].kind = "audit_write_error"

\* C39: when the write of a step's audit record fails, that loop iteration
\* ends the run through the failure boundary: success is false, the audit
\* error is the last of errors, actions_taken holds the steps attempted up
\* to and including that step, and neither the store nor the document is
\* touched; from then on the run attempts no step and updates nothing.
C39_AuditFailureEndsRun ==
    /\ [][\A outcome \in ConnectorOutcomes :
             (/\ RunStep(outcome, FALSE)
              /\ AuditRequiredArgs \subseteq Head(plan).args) =>
                /\ pc' = "idle"
                /\ result' # Null
                /\ ~result'.success
                /\ EndedByAuditWrite(result')
                /\ Len(result'.actions_taken) = Len(steps) + 1
                /\ \A i \in 1..Len(steps) :
                      result'.actions_taken[i] = steps[i]
                /\ identities' = identities
                /\ disk' = disk]_vars
    /\ [][(Returned /\ EndedByAuditWrite(result) /\ wf' = wf) =>
             (steps' = steps /\ identities' = identities /\ disk' = disk)]_vars

\* C39 witness: a run has returned through the failure boundary after a
\* failed audit write, with generated steps left unattempted and the
\* employee still stored as ACTIVE.
C39_Witness ==
    /\ Returned
    /\ ~result.success
    /\ EndedByAuditWrite(result)
    /\ Len(result.actions_taken) >= 2
    /\ Len(result.actions_taken) < Len(planned)
    /\ wf.event.employee_id \in DOMAIN disk
    /\ disk[wf.event.employee_id].status = "ACTIVE"

====
